---- MODULE Spec2Model ----
(***************************************************************************)
(* Model of the wilayah-indonesia region search service.                   *)
(*                                                                         *)
(* Strings are sequences of Unicode code points (Go runes), so that the    *)
(* byte length, the case conversions, the regular-expression filter and    *)
(* the lexicographic order are computed the way the code computes them.    *)
(* The store (DuckDB) is modelled as a relation with WHERE / ORDER BY /    *)
(* LIMIT evaluation; rows that tie on the ORDER BY key come back in an     *)
(* order the engine does not fix.                                          *)
(***************************************************************************)
EXTENDS Integers, Sequences, FiniteSets, TLC

VARIABLES
    regions,     \* the FlatRegion relation of the store (table "regions")
    phase,       \* "idle": no request in progress; "responded": a request was served
    req,         \* the last request: entry point, operation, raw parameter, store fault
    dbQueries,   \* the queries the last request issued to the store (db.Query calls)
    svcRet,      \* what the service operation returned: error and result slice
    httpResp,    \* the HTTP response written by the handler (or NoHttp)
    pc,          \* the ingestor's position in main
    catalog,     \* the names of the tables that exist in the database file
    wilayah,     \* the rows of the staging table "wilayah"
    wilayah_kodepos, \* the rows of the staging table "wilayah_kodepos"
    dataFiles,   \* the rows the files data/wilayah.sql and data/wilayah_kodepos.sql insert
    input,       \* the arguments of a function under study
    output,      \* the values the function returned, in call order
    inflight,    \* the requests being served concurrently, one per slot
    legacyResp   \* the response of the handler that takes the database handle

vars == <<regions, phase, req, dbQueries, svcRet, httpResp,
          pc, catalog, wilayah, wilayah_kodepos, dataFiles, input, output,
          inflight, legacyResp>>

\* the state of the ingestor and of the function calls, which serving a
\* request leaves alone
ingestVars == <<pc, catalog, wilayah, wilayah_kodepos, dataFiles>>
callVars == <<input, output, inflight, legacyResp>>

----------------------------------------------------------------------------
(* Bounds *)

\* number of rows of the row universe the relation is drawn from
MaxRows == 16

----------------------------------------------------------------------------
(* Strings: Go string primitives over code points *)

\* utf8.RuneLen: number of bytes of the UTF-8 encoding of a code point
RuneLen(c) ==
    IF c < 128 THEN 1 ELSE IF c < 2048 THEN 2 ELSE IF c < 65536 THEN 3 ELSE 4

RECURSIVE ByteLen(_)
\* the builtin len(s) of a Go string: its length in bytes
ByteLen(s) ==
    IF s = <<>> THEN 0 ELSE RuneLen(Head(s)) + ByteLen(Tail(s))

\* unicode.ToLower on the code points the model uses
\* (ASCII letters, and U+212A KELVIN SIGN whose lower case is ASCII k)
LowerRune(c) ==
    IF c >= 65 /\ c <= 90 THEN c + 32
    ELSE IF c = 8490 THEN 107
    ELSE c

\* unicode.ToTitle on the code points the model uses
TitleRune(c) ==
    IF c >= 97 /\ c <= 122 THEN c - 32 ELSE c

\* strings.ToLower
ToLower(s) == [i \in 1..Len(s) |-> LowerRune(s[i])]

\* the character class [a-zA-Z0-9 ] of the sanitizer's regular expression
InKeepClass(c) ==
    \/ c >= 97 /\ c <= 122
    \/ c >= 65 /\ c <= 90
    \/ c >= 48 /\ c <= 57
    \/ c = 32

\* the replacement writing a space for every character outside the class
RemovePunctuationToSpace(s) ==
    [i \in 1..Len(s) |-> IF InKeepClass(s[i]) THEN s[i] ELSE 32]

\* regexp "[^a-zA-Z0-9 ]+" with ReplaceAllString(s, ""): every character
\* outside the class is deleted
RemovePunctuation(s) == SelectSeq(s, InKeepClass)

\* isSeparator of package strings: ASCII letters, digits and underscore are
\* not separators, every other ASCII character is; beyond ASCII only the
\* Unicode spaces are (letters and digits are not)
IsSeparator(c) ==
    IF c <= 127
    THEN ~ \/ c >= 48 /\ c <= 57
           \/ c >= 97 /\ c <= 122
           \/ c >= 65 /\ c <= 90
           \/ c = 95
    ELSE c \in {133, 160, 5760, 8232, 8233, 8239, 8287, 12288}

\* strings.Title: a rune is title-cased when the rune before it (a space
\* before the first one) is a separator
Title(s) ==
    [i \in 1..Len(s) |->
        IF IsSeparator(IF i = 1 THEN 32 ELSE s[i - 1])
        THEN TitleRune(s[i]) ELSE s[i]]

\* unicode.IsSpace
IsSpace(c) ==
    c \in {9, 10, 11, 12, 13, 32, 133, 160, 5760, 8232, 8233, 8239, 8287, 12288}

\* strings.TrimSpace
TrimSpace(s) ==
    LET keep == {i \in 1..Len(s) : ~IsSpace(s[i])}
    IN  IF keep = {} THEN <<>>
        ELSE LET lo == CHOOSE i \in keep : \A j \in keep : i <= j
                 hi == CHOOSE i \in keep : \A j \in keep : i >= j
             IN  SubSeq(s, lo, hi)

\* Byte-wise (= code-point-wise) lexicographic order of two strings, the
\* order of ORDER BY on a VARCHAR column under the default collation
RECURSIVE StrLess(_, _)
StrLess(a, b) ==
    IF b = <<>> THEN FALSE
    ELSE IF a = <<>> THEN TRUE
    ELSE IF Head(a) # Head(b) THEN Head(a) < Head(b)
    ELSE StrLess(Tail(a), Tail(b))

\* needle occurs in hay as a contiguous substring
Contains(hay, needle) ==
    \E k \in 0..(Len(hay) - Len(needle)) :
        \A i \in 1..Len(needle) : hay[k + i] = needle[i]

----------------------------------------------------------------------------
(* Query normalizer and postal code validation *)

\* sanitizeQuery with the title case taken before the punctuation is deleted
sanitizeQueryTitleFirst(query) ==
    TrimSpace(RemovePunctuation(Title(ToLower(query))))

\* sanitizeQuery: lowercase, delete punctuation, title case, trim
sanitizeQuery(query) ==
    TrimSpace(Title(RemovePunctuation(ToLower(query))))

\* isNumeric without the upper bound of the digit range
isNumericNoUpperBound(s) ==
    \A i \in 1..Len(s) : ~(s[i] < 48)

\* isNumeric: every rune of s lies in '0'..'9' (true of the empty string)
isNumeric(s) ==
    \A i \in 1..Len(s) : ~(s[i] < 48 \/ s[i] > 57)

\* the format test of SearchByPostalCode: five bytes, all of them digits
ValidPostalCode(postalCode) ==
    ~(ByteLen(postalCode) # 5 \/ ~isNumeric(postalCode))

----------------------------------------------------------------------------
(* Similarity scorer: Jaro-Winkler, as exact rationals <<num, den>>, den > 0 *)

RECURSIVE RatCmp(_, _, _, _)
\* sign of a/b - c/d for a, c >= 0 and b, d > 0, by comparing the continued
\* fractions (no product is formed, so no intermediate value overflows)
RatCmp(a, b, c, d) ==
    LET q1 == a \div b
        q2 == c \div d
        r1 == a % b
        r2 == c % d
    IN  IF q1 # q2 THEN (IF q1 < q2 THEN -1 ELSE 1)
        ELSE IF r1 = 0 /\ r2 = 0 THEN 0
        ELSE IF r1 = 0 THEN -1
        ELSE IF r2 = 0 THEN 1
        ELSE RatCmp(d, r2, b, r1)

RatGeq(x, y) == RatCmp(x[1], x[2], y[1], y[2]) >= 0
RatGt(x, y) == RatCmp(x[1], x[2], y[1], y[2]) > 0
RatEq(x, y) == RatCmp(x[1], x[2], y[1], y[2]) = 0

MaxOf(x, y) == IF x >= y THEN x ELSE y
MinOf(x, y) == IF x <= y THEN x ELSE y

\* a window taken from the first string alone
MatchWindowOfFirst(a, b) == (Len(a) \div 2) - 1

\* match window: max(len(a), len(b)) / 2 - 1
MatchWindow(a, b) == (MaxOf(Len(a), Len(b)) \div 2) - 1

RECURSIVE JaroMatches(_, _, _, _, _)
\* Greedy left-to-right matching: for each position i of a, the first
\* position j of b not yet consumed, within the window of i, that carries
\* the same character.  Returns the sequence of matched pairs <<i, j>>.
JaroMatches(a, b, w, i, used) ==
    IF i > Len(a) THEN <<>>
    ELSE LET cand == {j \in 1..Len(b) :
                        /\ b[j] = a[i]
                        /\ j >= i - w
                        /\ j <= i + w
                        /\ j \notin used}
         IN  IF cand = {} THEN JaroMatches(a, b, w, i + 1, used)
             ELSE LET j == CHOOSE x \in cand : \A y \in cand : x <= y
                  IN  <<<<i, j>>>> \o JaroMatches(a, b, w, i + 1, used \cup {j})

\* number of leading characters identical in a and b, capped at 4
CommonPrefix(a, b) ==
    LET n == MinOf(4, MinOf(Len(a), Len(b)))
        same == {k \in 0..n : \A i \in 1..k : a[i] = b[i]}
    IN  CHOOSE k \in same : \A x \in same : x <= k

\* Jaro similarity
Jaro(a, b) ==
    IF Len(a) = 0 /\ Len(b) = 0 THEN <<1, 1>>
    ELSE IF Len(a) = 0 \/ Len(b) = 0 THEN <<0, 1>>
    ELSE
      LET pairs == JaroMatches(a, b, MatchWindow(a, b), 1, {})
          m == Len(pairs)
          usedB == {pairs[k][2] : k \in 1..m}
          jb == SelectSeq([j \in 1..Len(b) |-> j], LAMBDA j : j \in usedB)
          \* matched characters of a and of b, each in its own string order
          t == Cardinality({k \in 1..m : a[pairs[k][1]] # b[jb[k]]}) \div 2
      IN  IF m = 0 THEN <<0, 1>>
          ELSE <<m * m * Len(b) + m * m * Len(a) + (m - t) * Len(a) * Len(b),
                 3 * Len(a) * Len(b) * m>>

\* Jaro-Winkler = Jaro + l * p * (1 - Jaro), p = 1/10
JaroWinkler(a, b) ==
    LET j == Jaro(a, b)
        l == CommonPrefix(a, b)
    IN  <<10 * j[1] + l * (j[2] - j[1]), 10 * j[2]>>

----------------------------------------------------------------------------
(* The store: the regions relation and the SQL the service sends to it *)

\* a nullable VARCHAR column value
SqlNull == [valid |-> FALSE, str |-> <<>>]
SqlStr(s) == [valid |-> TRUE, str |-> s]

\* LOWER(...) of the store
SqlLower(s) == [i \in 1..Len(s) |-> LowerRune(s[i])]

\* a row of "regions" whose full_text is joined in subdistrict-to-province
\* order
FlatRegionReversedText(id, subdistrict, district, city, province, postal_code) ==
    [id          |-> id,
     subdistrict |-> subdistrict,
     district    |-> district,
     city        |-> city,
     province    |-> province,
     postal_code |-> postal_code,
     full_text   |-> SqlLower(subdistrict \o <<32>> \o district \o <<32>>
                              \o city \o <<32>> \o province)]

\* one row of "regions" as the transformation query's SELECT list builds it
FlatRegion(id, subdistrict, district, city, province, postal_code) ==
    [id          |-> id,
     subdistrict |-> subdistrict,
     district    |-> district,
     city        |-> city,
     province    |-> province,
     postal_code |-> postal_code,
     full_text   |-> SqlLower(province \o <<32>> \o city \o <<32>>
                              \o district \o <<32>> \o subdistrict)]

\* full_text ILIKE '%' || q || '%': q occurs in full_text, letter case ignored
\* (the sanitized q holds no LIKE wildcard)
ILike(text, q) == Contains(SqlLower(text), SqlLower(q))

\* the similarity threshold 0.8 of the WHERE clauses
Threshold == <<8, 10>>

\* LIMIT 10
Limit == 10

\* 'Kota ' and 'Kabupaten '
KotaPrefix == <<75, 111, 116, 97, 32>>
KabupatenPrefix == <<75, 97, 98, 117, 112, 97, 116, 101, 110, 32>>

\* Each query evaluated on one row: does WHERE hold, and the ORDER BY key
\* (sim: similarities, sorted descending; text: sorted ascending).

\* the general query ordered by id instead of full_text
SearchSQLOrderById(r, q) ==
    [row |-> r, where |-> ILike(r.full_text, q), sim |-> <<>>, text |-> r.id]

\* WHERE full_text ILIKE '%' || ? || '%' ORDER BY full_text
SearchSQL(r, q) ==
    [row |-> r, where |-> ILike(r.full_text, q), sim |-> <<>>, text |-> r.full_text]

\* the district query scoring the subdistrict column
DistrictSQLWrongColumn(r, q) ==
    LET s == JaroWinkler(r.subdistrict, q)
    IN  [row |-> r, where |-> RatGeq(s, Threshold), sim |-> <<s>>, text |-> <<>>]

\* WHERE jaro_winkler_similarity(district, ?) >= 0.8 ORDER BY (same) DESC
DistrictSQL(r, q) ==
    LET s == JaroWinkler(r.district, q)
    IN  [row |-> r, where |-> RatGeq(s, Threshold), sim |-> <<s>>, text |-> <<>>]

\* WHERE jaro_winkler_similarity(subdistrict, ?) >= 0.8 ORDER BY (same) DESC
SubdistrictSQL(r, q) ==
    LET s == JaroWinkler(r.subdistrict, q)
    IN  [row |-> r, where |-> RatGeq(s, Threshold), sim |-> <<s>>, text |-> <<>>]

\* the city query with its two ORDER BY keys exchanged
CitySQLKeysSwapped(r, q) ==
    LET s1 == JaroWinkler(r.city, KotaPrefix \o q)
        s2 == JaroWinkler(r.city, KabupatenPrefix \o q)
    IN  [row |-> r,
         where |-> RatGeq(s1, Threshold) \/ RatGeq(s2, Threshold),
         sim |-> <<s2, s1>>, text |-> <<>>]

\* WHERE jaro_winkler_similarity(city, 'Kota ' || ?) >= 0.8
\*    OR jaro_winkler_similarity(city, 'Kabupaten ' || ?) >= 0.8
\* ORDER BY the first DESC, the second DESC
CitySQL(r, q) ==
    LET s1 == JaroWinkler(r.city, KotaPrefix \o q)
        s2 == JaroWinkler(r.city, KabupatenPrefix \o q)
    IN  [row |-> r,
         where |-> RatGeq(s1, Threshold) \/ RatGeq(s2, Threshold),
         sim |-> <<s1, s2>>, text |-> <<>>]

\* WHERE jaro_winkler_similarity(province, ?) >= 0.8 ORDER BY (same) DESC
ProvinceSQL(r, q) ==
    LET s == JaroWinkler(r.province, q)
    IN  [row |-> r, where |-> RatGeq(s, Threshold), sim |-> <<s>>, text |-> <<>>]

\* the postal query with >= in place of =
PostalCodeSQLGeq(r, p) ==
    [row |-> r,
     where |-> r.postal_code.valid /\ ~StrLess(r.postal_code.str, p),
     sim |-> <<>>, text |-> r.full_text]

\* WHERE postal_code = ? ORDER BY full_text   (NULL = ? is not true)
PostalCodeSQL(r, p) ==
    [row |-> r,
     where |-> r.postal_code.valid /\ r.postal_code.str = p,
     sim |-> <<>>, text |-> r.full_text]

RECURSIVE SimBefore(_, _)
\* ORDER BY s1 DESC, s2 DESC, ...: x comes strictly before y
SimBefore(x, y) ==
    IF x = <<>> \/ y = <<>> THEN FALSE
    ELSE \/ RatGt(Head(x), Head(y))
         \/ RatEq(Head(x), Head(y)) /\ SimBefore(Tail(x), Tail(y))

\* evaluated row x sorts strictly before evaluated row y
SortsBefore(x, y) ==
    SimBefore(x.sim, y.sim) \/ StrLess(x.text, y.text)

RECURSIVE TopN(_, _)
\* The row sequences a sort followed by LIMIT n can deliver: repeatedly the
\* next row is one that no remaining row sorts before; among rows that tie
\* the engine is free.
TopN(ranked, n) ==
    IF n = 0 \/ ranked = {} THEN {<<>>}
    ELSE LET best == {x \in ranked : \A y \in ranked : x.rank <= y.rank}
         IN  UNION {{<<x.row>> \o t : t \in TopN(ranked \ {x}, n - 1)} : x \in best}

\* SELECT ... WHERE ... ORDER BY ... LIMIT 10 over the rows of the relation
\* as evaluated by the query (evald): the possible row sequences of the
\* result set
ExecQuery(evald) ==
    LET matched == {e \in evald : e.where}
        ranked == {[row |-> e.row,
                    rank |-> Cardinality({x \in matched : SortsBefore(x, e)})]
                   : e \in matched}
    IN  TopN(ranked, Limit)

----------------------------------------------------------------------------
(* Service errors and Go values *)

ErrCodeInvalidInput == "INVALID_INPUT"
ErrCodeNotFound == "NOT_FOUND"
ErrCodeDatabaseFailure == "DATABASE_FAILURE"

\* the error text of the database driver, formatted into messages with %v
StoreErrorText == "<store error text>"

\* a nil error
NilError == [code |-> "", msg |-> <<>>]

\* NewError / NewErrorf: a *Error with a code and a message (message parts)
NewError(code, msg) == [code |-> code, msg |-> msg]

\* IsError(err, code)
IsError(err, code) == err # NilError /\ err.code = code

\* a nil []Region and a non-nil one
NilSlice == [isNil |-> TRUE, items |-> <<>>]
Slice(items) == [isNil |-> FALSE, items |-> items]

\* the Region struct filled by rows.Scan from a row without NULL
Region(r) == [r EXCEPT !.postal_code = r.postal_code.str]

\* store faults a request can meet: none, db.Query fails, the row
\* iteration fails
Faults == {"none", "query", "rows"}

\* a scanRegions that hands the store's own errors back unwrapped
scanRegionsRawError(rows, failAt) ==
    LET delivered == IF failAt = -1 THEN rows ELSE SubSeq(rows, 1, failAt)
    IN  IF (\E i \in 1..Len(delivered) : ~delivered[i].postal_code.valid)
           \/ failAt # -1
        THEN [err |-> [code |-> "", msg |-> <<StoreErrorText>>],
              results |-> NilSlice]
        ELSE [err |-> NilError,
              results |-> IF Len(delivered) = 0 THEN NilSlice
                          ELSE Slice([i \in 1..Len(delivered) |-> Region(delivered[i])])]

\* scanRegions on a result set of which failAt rows are delivered before the
\* iteration stops with an error (failAt = -1: the iteration completes).
\* Scanning a NULL postal_code into the string field PostalCode fails.
scanRegions(rows, failAt) ==
    LET delivered == IF failAt = -1 THEN rows ELSE SubSeq(rows, 1, failAt)
    IN  IF \E i \in 1..Len(delivered) : ~delivered[i].postal_code.valid
        THEN [err |-> NewError(ErrCodeDatabaseFailure,
                               <<"failed to scan row: ", StoreErrorText>>),
              results |-> NilSlice]
        ELSE IF failAt # -1
        THEN [err |-> NewError(ErrCodeDatabaseFailure,
                               <<"error iterating rows: ", StoreErrorText>>),
              results |-> NilSlice]
        ELSE [err |-> NilError,
              results |-> IF Len(delivered) = 0 THEN NilSlice
                          ELSE Slice([i \in 1..Len(delivered) |-> Region(delivered[i])])]

\* db.Query failed
QueryFailed ==
    [err |-> NewError(ErrCodeDatabaseFailure,
                      <<"database query failed: ", StoreErrorText>>),
     results |-> NilSlice]

\* db.Query followed by scanRegions: the returns the service can see for a
\* query whose possible result sets are rowsets
QueryAndScan(rowsets, fault) ==
    IF fault = "query" THEN {QueryFailed}
    ELSE IF fault = "rows"
    THEN UNION {{scanRegions(rows, k) : k \in 0..Len(rows)} : rows \in rowsets}
    ELSE {scanRegions(rows, -1) : rows \in rowsets}

\* what a service operation did: its return value and the queries it issued
Outcome(ret, queries) ==
    [err |-> ret.err, results |-> ret.results, queries |-> queries]

InvalidInput(msg) ==
    Outcome([err |-> NewError(ErrCodeInvalidInput, <<msg>>), results |-> NilSlice], <<>>)

----------------------------------------------------------------------------
(* The six service operations: the set of outcomes of one call *)

\* Search without the empty-query check
SearchNoEmptyCheck(rel, query, fault) ==
    LET sanitizedQuery == sanitizeQuery(query)
        q == [sql |-> "Search", args |-> <<sanitizedQuery>>]
    IN  {Outcome(ret, <<q>>) :
           ret \in QueryAndScan(
               ExecQuery({SearchSQL(r, sanitizedQuery) : r \in rel}), fault)}

Search(rel, query, fault) ==
    IF query = <<>> THEN {InvalidInput("query parameter is required")}
    ELSE LET sanitizedQuery == sanitizeQuery(query)
             q == [sql |-> "Search", args |-> <<sanitizedQuery>>]
         IN  {Outcome(ret, <<q>>) :
                ret \in QueryAndScan(
                    ExecQuery({SearchSQL(r, sanitizedQuery) : r \in rel}), fault)}

SearchByDistrict(rel, query, fault) ==
    IF query = <<>> THEN {InvalidInput("query parameter is required")}
    ELSE LET sanitizedQuery == sanitizeQuery(query)
             q == [sql |-> "SearchByDistrict",
                   args |-> <<sanitizedQuery, sanitizedQuery>>]
         IN  {Outcome(ret, <<q>>) :
                ret \in QueryAndScan(
                    ExecQuery({DistrictSQL(r, sanitizedQuery) : r \in rel}), fault)}

SearchBySubdistrict(rel, query, fault) ==
    IF query = <<>> THEN {InvalidInput("query parameter is required")}
    ELSE LET sanitizedQuery == sanitizeQuery(query)
             q == [sql |-> "SearchBySubdistrict",
                   args |-> <<sanitizedQuery, sanitizedQuery>>]
         IN  {Outcome(ret, <<q>>) :
                ret \in QueryAndScan(
                    ExecQuery({SubdistrictSQL(r, sanitizedQuery) : r \in rel}), fault)}

SearchByCity(rel, query, fault) ==
    IF query = <<>> THEN {InvalidInput("query parameter is required")}
    ELSE LET sanitizedQuery == sanitizeQuery(query)
             q == [sql |-> "SearchByCity",
                   args |-> <<sanitizedQuery, sanitizedQuery,
                              sanitizedQuery, sanitizedQuery>>]
         IN  {Outcome(ret, <<q>>) :
                ret \in QueryAndScan(
                    ExecQuery({CitySQL(r, sanitizedQuery) : r \in rel}), fault)}

SearchByProvince(rel, query, fault) ==
    IF query = <<>> THEN {InvalidInput("query parameter is required")}
    ELSE LET sanitizedQuery == sanitizeQuery(query)
             q == [sql |-> "SearchByProvince",
                   args |-> <<sanitizedQuery, sanitizedQuery>>]
         IN  {Outcome(ret, <<q>>) :
                ret \in QueryAndScan(
                    ExecQuery({ProvinceSQL(r, sanitizedQuery) : r \in rel}), fault)}

\* SearchByPostalCode without the zero-rows check
SearchByPostalCodeNoNotFound(rel, postalCode, fault) ==
    IF postalCode = <<>> THEN {InvalidInput("postal code parameter is required")}
    ELSE IF ~ValidPostalCode(postalCode)
    THEN {InvalidInput("postal code must be a 5-digit number")}
    ELSE LET q == [sql |-> "SearchByPostalCode", args |-> <<postalCode>>]
         IN  {Outcome(ret, <<q>>) :
                ret \in QueryAndScan(
                    ExecQuery({PostalCodeSQL(r, postalCode) : r \in rel}), fault)}

SearchByPostalCode(rel, postalCode, fault) ==
    IF postalCode = <<>> THEN {InvalidInput("postal code parameter is required")}
    ELSE IF ~ValidPostalCode(postalCode)
    THEN {InvalidInput("postal code must be a 5-digit number")}
    ELSE LET q == [sql |-> "SearchByPostalCode", args |-> <<postalCode>>]
         IN  {Outcome(
                IF ret.err = NilError /\ Len(ret.results.items) = 0
                THEN [err |-> NewError(ErrCodeNotFound,
                                <<"no regions found for the provided postal code">>),
                      results |-> NilSlice]
                ELSE ret,
                <<q>>) :
                ret \in QueryAndScan(
                    ExecQuery({PostalCodeSQL(r, postalCode) : r \in rel}), fault)}

\* the service operation behind each endpoint
Operations ==
    {"Search", "SearchByDistrict", "SearchBySubdistrict",
     "SearchByCity", "SearchByProvince", "SearchByPostalCode"}

----------------------------------------------------------------------------
(* HTTP handlers *)

StatusOK == 200
StatusBadRequest == 400
StatusNotFound == 404
StatusInternalServerError == 500

\* c.Status(code).JSON(fiber.Map{"error": msg})
ErrorResponse(status, msg) ==
    [status |-> status, body |-> [kind |-> "object", error |-> msg, items |-> <<>>]]

\* c.JSON(results): encoding/json writes a nil slice as null and a non-nil
\* slice as an array
JSONResponse(results) ==
    [status |-> StatusOK,
     body |-> IF results.isNil
              THEN [kind |-> "null", error |-> <<>>, items |-> <<>>]
              ELSE [kind |-> "array", error |-> <<>>, items |-> results.items]]

\* no HTTP response (the service was called directly)
NoHttp == [status |-> 0, body |-> [kind |-> "none", error |-> <<>>, items |-> <<>>]]

\* the service was not called
NotCalled == [called |-> FALSE, err |-> NilError, results |-> NilSlice]
Called(out) == [called |-> TRUE, err |-> out.err, results |-> out.results]

\* the query handlers' error mapping answering a database failure with the
\* error's own message
QueryHandlerResponseWithDetail(out) ==
    IF out.err # NilError
    THEN IF IsError(out.err, ErrCodeInvalidInput)
         THEN ErrorResponse(StatusBadRequest, out.err.msg)
         ELSE ErrorResponse(StatusInternalServerError, out.err.msg)
    ELSE JSONResponse(out.results)

\* the error mapping shared by the five query handlers
QueryHandlerResponse(out) ==
    IF out.err # NilError
    THEN IF IsError(out.err, ErrCodeInvalidInput)
         THEN ErrorResponse(StatusBadRequest, out.err.msg)
         ELSE IF IsError(out.err, ErrCodeDatabaseFailure)
         THEN ErrorResponse(StatusInternalServerError, <<"Database query failed">>)
         ELSE ErrorResponse(StatusInternalServerError, out.err.msg)
    ELSE JSONResponse(out.results)

\* the error mapping of PostalCodeSearchHandler
PostalCodeHandlerResponse(out) ==
    IF out.err # NilError
    THEN IF IsError(out.err, ErrCodeInvalidInput)
         THEN ErrorResponse(StatusBadRequest, out.err.msg)
         ELSE IF IsError(out.err, ErrCodeNotFound)
         THEN ErrorResponse(StatusNotFound, out.err.msg)
         ELSE IF IsError(out.err, ErrCodeDatabaseFailure)
         THEN ErrorResponse(StatusInternalServerError, <<"Database query failed">>)
         ELSE ErrorResponse(StatusInternalServerError, out.err.msg)
    ELSE JSONResponse(out.results)

----------------------------------------------------------------------------
(* The relations and the request parameters the model explores *)

SubdistrictNames ==
  << <<66, 97, 110, 100, 117, 110, 103>>,               \* Bandung
     <<66, 97, 110, 100, 117, 110, 103>>,               \* Bandung
     <<66, 97, 108, 105>>,                              \* Bali
     <<66, 97, 110, 100, 117, 103>>,                    \* Bandug
     <<66, 97, 110, 100, 105, 110, 103>>,               \* Banding
     <<66, 97, 110, 100, 97, 110, 103>>,                \* Bandang
     <<66, 97, 100, 117, 110, 103>>,                    \* Badung
     <<66, 101, 110, 100, 117, 110, 103>>,              \* Bendung
     <<66, 97, 110, 100, 117, 110, 103, 97, 110>>,      \* Bandungan
     <<76, 97, 110, 100, 117, 110, 103>>,               \* Landung
     <<66, 97, 110, 103, 117, 110>>,                    \* Bangun
     <<65, 110, 100, 117, 110, 103>>,                   \* Andung
     <<66, 97, 110, 100, 97, 114>>,                     \* Bandar
     <<66, 97, 110, 106, 97, 114>>,                     \* Banjar
     <<66, 97, 100, 97, 117>>,                          \* Badau
     <<66, 97, 110, 100, 117, 110, 103, 97>> >>         \* Bandunga

DistrictNames ==
  << <<66, 97, 110, 100, 117, 110, 103>>,               \* Bandung
     <<66, 97, 110, 100, 117, 110, 103, 97>>,           \* Bandunga
     <<66, 97, 108, 105>>,                              \* Bali
     <<66, 97, 110, 100, 117, 110>>,                    \* Bandun
     <<66, 97, 110, 117, 110, 103>>,                    \* Banung
     <<66, 110, 100, 117, 110, 103>>,                   \* Bndung
     <<66, 97, 110, 100, 117, 110, 103, 97, 110>>,      \* Bandungan
     <<66, 97, 110, 100, 105, 110, 103>> >>             \* Banding

CityNames ==
  << <<75, 111, 116, 97, 32, 66, 97, 110, 100, 117, 110, 103>>,
                                                        \* Kota Bandung
     <<75, 97, 98, 117, 112, 97, 116, 101, 110, 32, 66, 97, 110, 100, 117, 110, 103>>,
                                                        \* Kabupaten Bandung
     <<75, 111, 116, 97, 32, 66, 97, 110, 106, 97, 114>>,
                                                        \* Kota Banjar
     <<75, 97, 98, 117, 112, 97, 116, 101, 110, 32, 66, 97, 110, 100, 117, 110>>,
                                                        \* Kabupaten Bandun
     <<68, 101, 110, 112, 97, 115, 97, 114>>,           \* Denpasar
     <<75, 111, 116, 97, 32, 66, 97, 110, 100, 117, 110, 103, 97, 110>>,
                                                        \* Kota Bandungan
     <<75, 97, 98, 117, 112, 97, 116, 101, 110, 32, 66, 97, 100, 117, 110, 103>>,
                                                        \* Kabupaten Badung
     <<75, 97, 98, 117, 112, 97, 116, 101, 110, 32, 66, 97, 97, 110, 100, 117, 110, 103>> >>
                                                        \* Kabupaten Baandung

ProvinceNames ==
  << <<66, 97, 110, 100, 117, 110, 103>>,               \* Bandung
     <<66, 97, 110, 100, 105, 110, 103>>,               \* Banding
     <<66, 97, 110, 100, 117, 110>>,                    \* Bandun
     <<66, 97, 110, 106, 97, 114>>,                     \* Banjar
     <<66, 97, 100, 117, 110, 103>>,                    \* Badung
     <<66, 97, 110, 100, 117, 110, 103, 97, 110>>,      \* Bandungan
     <<66, 101, 110, 100, 117, 110, 103>>,              \* Bendung
     <<66, 97, 97, 110, 100, 117, 110, 103>> >>         \* Baandung

\* "10110" and "40111"
PostalA == <<49, 48, 49, 49, 48>>
PostalB == <<52, 48, 49, 49, 49>>

\* the postal code of row universe entry k: two subdistricts without a
\* postal record, one with another code, the rest share a code
PostalOf(k) ==
    IF k \in {15, 16} THEN SqlNull
    ELSE IF k = 4 THEN SqlStr(PostalB)
    ELSE SqlStr(PostalA)

\* row i of the row universe: a subdistrict with code "32.73.01.20dd"; two
\* consecutive rows share district, city and province
Row(i) ==
    LET k == ((i - 1) % 16) + 1
        g == (k + 1) \div 2
    IN  FlatRegion(<<51, 50, 46, 55, 51, 46, 48, 49, 46, 50, 48,
                     48 + ((i \div 10) % 10), 48 + (i % 10)>>,
                   SubdistrictNames[k], DistrictNames[g], CityNames[g],
                   ProvinceNames[g], PostalOf(k))

\* the relations explored: every run lo..hi of the row universe
Relations ==
    {{Row(i) : i \in lo..hi} : lo \in 1..(MaxRows + 1), hi \in 0..MaxRows}

\* raw q parameters: "", "bandung", "BANDUNG.", "bali", "kota", "zzz", "-",
\* "ban dung"
TextQueries ==
    { <<>>,
      <<98, 97, 110, 100, 117, 110, 103>>,
      <<66, 65, 78, 68, 85, 78, 71, 46>>,
      <<98, 97, 108, 105>>,
      <<107, 111, 116, 97>>,
      <<122, 122, 122>>,
      <<45>>,
      <<98, 97, 110, 32, 100, 117, 110, 103>> }

\* raw postal code parameters: "", "10110", "40111", "99999", "123",
\* "1234a", "123456", "1" U+0663 "11" (five bytes, four characters),
\* U+0661..U+0665 (five Arabic-Indic digits, ten bytes), "12:45", "12/45"
PostalInputs ==
    { <<>>,
      <<49, 48, 49, 49, 48>>,
      <<52, 48, 49, 49, 49>>,
      <<57, 57, 57, 57, 57>>,
      <<49, 50, 51>>,
      <<49, 50, 51, 52, 97>>,
      <<49, 50, 51, 52, 53, 54>>,
      <<49, 1635, 49, 49>>,
      <<1633, 1634, 1635, 1636, 1637>>,
      <<49, 50, 58, 52, 53>>,
      <<49, 50, 47, 52, 53>> }

----------------------------------------------------------------------------
(* State machine *)

NoRequest == [via |-> "none", op |-> "none", raw |-> <<>>, fault |-> "none"]

\* no request has been received
NoTraffic ==
    /\ phase = "idle"
    /\ req = NoRequest
    /\ dbQueries = <<>>
    /\ svcRet = NotCalled
    /\ httpResp = NoHttp

\* the ingestor has run to completion: only "regions" is left
Ingested ==
    /\ pc = "done"
    /\ catalog = {"regions"}
    /\ wilayah = {}
    /\ wilayah_kodepos = {}
    /\ dataFiles = [wilayah |-> {}, kodepos |-> {}]

\* no function is under study
NoCall ==
    /\ input = <<>>
    /\ output = <<>>

\* no request is in flight and no database-handle handler has answered
NoStudy ==
    /\ inflight = <<>>
    /\ legacyResp = NoHttp

Init ==
    /\ regions \in Relations
    /\ NoTraffic
    /\ Ingested
    /\ NoCall
    /\ NoStudy

\* a handler whose response comes with the relation emptied
ServedClearingRelation(op, raw, fault, out, resp) ==
    /\ phase' = "responded"
    /\ req' = [via |-> "http", op |-> op, raw |-> raw, fault |-> fault]
    /\ dbQueries' = out.queries
    /\ svcRet' = Called(out)
    /\ httpResp' = resp
    /\ regions' = {}
    /\ UNCHANGED <<ingestVars, callVars>>

\* a handler ran to completion: the request, what the service did and the
\* response it wrote
Served(op, raw, fault, out, resp) ==
    /\ phase' = "responded"
    /\ req' = [via |-> "http", op |-> op, raw |-> raw, fault |-> fault]
    /\ dbQueries' = out.queries
    /\ svcRet' = Called(out)
    /\ httpResp' = resp
    /\ UNCHANGED <<regions, ingestVars, callVars>>

\* a handler rejected the request without calling the service
Rejected(op, raw, fault, resp) ==
    /\ phase' = "responded"
    /\ req' = [via |-> "http", op |-> op, raw |-> raw, fault |-> fault]
    /\ dbQueries' = <<>>
    /\ svcRet' = NotCalled
    /\ httpResp' = resp
    /\ UNCHANGED <<regions, ingestVars, callVars>>

\* a library client called a service operation directly
Returned(op, raw, fault, out) ==
    /\ phase' = "responded"
    /\ req' = [via |-> "service", op |-> op, raw |-> raw, fault |-> fault]
    /\ dbQueries' = out.queries
    /\ svcRet' = Called(out)
    /\ httpResp' = NoHttp
    /\ UNCHANGED <<regions, ingestVars, callVars>>

\* GET /v1/search?q=
SearchHandler ==
    /\ phase = "idle"
    /\ \E query \in TextQueries, fault \in Faults :
        IF query = <<>>
        THEN Rejected("Search", query, fault,
                 ErrorResponse(StatusBadRequest, <<"Query parameter 'q' is required">>))
        ELSE \E out \in Search(regions, query, fault) :
                 Served("Search", query, fault, out, QueryHandlerResponse(out))

\* GET /v1/search/district?q=
DistrictSearchHandler ==
    /\ phase = "idle"
    /\ \E query \in TextQueries, fault \in Faults :
        IF query = <<>>
        THEN Rejected("SearchByDistrict", query, fault,
                 ErrorResponse(StatusBadRequest, <<"Query parameter 'q' is required">>))
        ELSE \E out \in SearchByDistrict(regions, query, fault) :
                 Served("SearchByDistrict", query, fault, out, QueryHandlerResponse(out))

\* GET /v1/search/subdistrict?q=
SubdistrictSearchHandler ==
    /\ phase = "idle"
    /\ \E query \in TextQueries, fault \in Faults :
        IF query = <<>>
        THEN Rejected("SearchBySubdistrict", query, fault,
                 ErrorResponse(StatusBadRequest, <<"Query parameter 'q' is required">>))
        ELSE \E out \in SearchBySubdistrict(regions, query, fault) :
                 Served("SearchBySubdistrict", query, fault, out, QueryHandlerResponse(out))

\* GET /v1/search/city?q=
CitySearchHandler ==
    /\ phase = "idle"
    /\ \E query \in TextQueries, fault \in Faults :
        IF query = <<>>
        THEN Rejected("SearchByCity", query, fault,
                 ErrorResponse(StatusBadRequest, <<"Query parameter 'q' is required">>))
        ELSE \E out \in SearchByCity(regions, query, fault) :
                 Served("SearchByCity", query, fault, out, QueryHandlerResponse(out))

\* GET /v1/search/province?q=
ProvinceSearchHandler ==
    /\ phase = "idle"
    /\ \E query \in TextQueries, fault \in Faults :
        IF query = <<>>
        THEN Rejected("SearchByProvince", query, fault,
                 ErrorResponse(StatusBadRequest, <<"Query parameter 'q' is required">>))
        ELSE \E out \in SearchByProvince(regions, query, fault) :
                 Served("SearchByProvince", query, fault, out, QueryHandlerResponse(out))

\* GET /v1/search/postal/:postalCode
PostalCodeSearchHandler ==
    /\ phase = "idle"
    /\ \E postalCode \in PostalInputs, fault \in Faults :
        IF postalCode = <<>>
        THEN Rejected("SearchByPostalCode", postalCode, fault,
                 ErrorResponse(StatusBadRequest, <<"Postal code parameter is required">>))
        ELSE \E out \in SearchByPostalCode(regions, postalCode, fault) :
                 Served("SearchByPostalCode", postalCode, fault, out,
                        PostalCodeHandlerResponse(out))

\* direct calls of the service package (library use)
CallSearch ==
    /\ phase = "idle"
    /\ \E query \in TextQueries, fault \in Faults :
        \E out \in Search(regions, query, fault) :
            Returned("Search", query, fault, out)

CallSearchByDistrict ==
    /\ phase = "idle"
    /\ \E query \in TextQueries, fault \in Faults :
        \E out \in SearchByDistrict(regions, query, fault) :
            Returned("SearchByDistrict", query, fault, out)

CallSearchBySubdistrict ==
    /\ phase = "idle"
    /\ \E query \in TextQueries, fault \in Faults :
        \E out \in SearchBySubdistrict(regions, query, fault) :
            Returned("SearchBySubdistrict", query, fault, out)

CallSearchByCity ==
    /\ phase = "idle"
    /\ \E query \in TextQueries, fault \in Faults :
        \E out \in SearchByCity(regions, query, fault) :
            Returned("SearchByCity", query, fault, out)

CallSearchByProvince ==
    /\ phase = "idle"
    /\ \E query \in TextQueries, fault \in Faults :
        \E out \in SearchByProvince(regions, query, fault) :
            Returned("SearchByProvince", query, fault, out)

CallSearchByPostalCode ==
    /\ phase = "idle"
    /\ \E postalCode \in PostalInputs, fault \in Faults :
        \E out \in SearchByPostalCode(regions, postalCode, fault) :
            Returned("SearchByPostalCode", postalCode, fault, out)

\* the response has been delivered; the server waits for the next request
\* the body of the health endpoint: {"status": ..., "message": ...}
HealthBody(status, message) ==
    [kind |-> "health", error |-> <<>>, items |-> <<>>,
     status |-> status, message |-> message]

\* GET /healthz: db.Ping() succeeds or fails
HealthCheck ==
    /\ phase = "idle"
    /\ \E fault \in {"none", "ping"} :
          /\ req' = [via |-> "http", op |-> "Health", raw |-> <<>>, fault |-> fault]
          /\ httpResp' =
                 IF fault = "ping"
                 THEN [status |-> StatusInternalServerError,
                       body |-> HealthBody("error", "Database connection failed")]
                 ELSE [status |-> StatusOK,
                       body |-> HealthBody("ok", "Service is healthy")]
    /\ phase' = "responded"
    /\ dbQueries' = <<>>
    /\ svcRet' = NotCalled
    /\ UNCHANGED <<regions, ingestVars, callVars>>

NextRequest ==
    /\ phase = "responded"
    /\ phase' = "idle"
    /\ req' = NoRequest
    /\ dbQueries' = <<>>
    /\ svcRet' = NotCalled
    /\ httpResp' = NoHttp
    /\ UNCHANGED <<regions, ingestVars, callVars>>

Next ==
    \/ SearchHandler
    \/ DistrictSearchHandler
    \/ SubdistrictSearchHandler
    \/ CitySearchHandler
    \/ ProvinceSearchHandler
    \/ PostalCodeSearchHandler
    \/ CallSearch
    \/ CallSearchByDistrict
    \/ CallSearchBySubdistrict
    \/ CallSearchByCity
    \/ CallSearchByProvince
    \/ CallSearchByPostalCode
    \/ HealthCheck
    \/ NextRequest

Spec == Init /\ [][Next]_vars

----------------------------------------------------------------------------
(* The ingestor: cmd/ingestor, run once before serving *)

\* number of records of the raw region universe, and of the postal universe
MaxRaw == 7
MaxPostal == 3

\* two decimal digits of i
TwoDigits(i) == <<48 + ((i \div 10) % 10), 48 + (i % 10)>>

\* record i of the raw region universe:
\*   1  "32"             Jawa Barat       5  "32.73.02.1001"  Dago
\*   2  "32.73"          Kota Bandung     6  "32.73.02"       Coblong
\*   3  "32.73.01"       Sukasari         7  "32.73"          Bandung
\*   4  "32.73.01.2001"  Isola            8+ "32.73.01.20dd"  Sukarasa
RawRegionRecord(i) ==
    IF i = 1 THEN [kode |-> <<51, 50>>,
                   nama |-> <<74, 97, 119, 97, 32, 66, 97, 114, 97, 116>>]
    ELSE IF i = 2 THEN [kode |-> <<51, 50, 46, 55, 51>>,
                        nama |-> <<75, 111, 116, 97, 32, 66, 97, 110, 100, 117, 110, 103>>]
    ELSE IF i = 3 THEN [kode |-> <<51, 50, 46, 55, 51, 46, 48, 49>>,
                        nama |-> <<83, 117, 107, 97, 115, 97, 114, 105>>]
    ELSE IF i = 4 THEN [kode |-> <<51, 50, 46, 55, 51, 46, 48, 49, 46, 50, 48, 48, 49>>,
                        nama |-> <<73, 115, 111, 108, 97>>]
    ELSE IF i = 5 THEN [kode |-> <<51, 50, 46, 55, 51, 46, 48, 50, 46, 49, 48, 48, 49>>,
                        nama |-> <<68, 97, 103, 111>>]
    ELSE IF i = 6 THEN [kode |-> <<51, 50, 46, 55, 51, 46, 48, 50>>,
                        nama |-> <<67, 111, 98, 108, 111, 110, 103>>]
    ELSE IF i = 7 THEN [kode |-> <<51, 50, 46, 55, 51>>,
                        nama |-> <<66, 97, 110, 100, 117, 110, 103>>]
    ELSE [kode |-> <<51, 50, 46, 55, 51, 46, 48, 49, 46, 50, 48>> \o TwoDigits(i),
          nama |-> <<83, 117, 107, 97, 114, 97, 115, 97>>]

\* record j of the postal universe:
\*   1  "32.73.01.2001" 40111    3  "32.73.02.1001" 40151
\*   2  "32.73.01.2001" 40112    4+ "99.99.99.99dd" 10110 (no such region)
RawPostalRecord(j) ==
    IF j = 1 THEN [kode |-> <<51, 50, 46, 55, 51, 46, 48, 49, 46, 50, 48, 48, 49>>,
                   kodepos |-> <<52, 48, 49, 49, 49>>]
    ELSE IF j = 2 THEN [kode |-> <<51, 50, 46, 55, 51, 46, 48, 49, 46, 50, 48, 48, 49>>,
                        kodepos |-> <<52, 48, 49, 49, 50>>]
    ELSE IF j = 3 THEN [kode |-> <<51, 50, 46, 55, 51, 46, 48, 50, 46, 49, 48, 48, 49>>,
                        kodepos |-> <<52, 48, 49, 53, 49>>]
    ELSE [kode |-> <<57, 57, 46, 57, 57, 46, 57, 57, 46, 57, 57>> \o TwoDigits(j),
          kodepos |-> <<49, 48, 49, 49, 48>>]

\* what the two data files can hold (no file holds the same row twice)
WilayahFiles == SUBSET {RawRegionRecord(i) : i \in 1..MaxRaw}
KodeposFiles == SUBSET {RawPostalRecord(j) : j \in 1..MaxPostal}

\* SUBSTRING(s FROM from FOR n)
Substring(s, from, n) == SubSeq(s, from, MinOf(Len(s), from + n - 1))

\* FROM wilayah AS sub JOIN wilayah AS dist ... JOIN wilayah AS city ...
\* JOIN wilayah AS prov ... WHERE LENGTH(sub.kode) = 13
JoinAncestors(w) ==
    {t \in w \X w \X w \X w :
        /\ t[2].kode = Substring(t[1].kode, 1, 8)
        /\ t[3].kode = Substring(t[1].kode, 1, 5)
        /\ t[4].kode = Substring(t[1].kode, 1, 2)
        /\ Len(t[1].kode) = 13}

\* an inner JOIN of wilayah_kodepos
InnerJoinKodepos(sub, k) ==
    {SqlStr(p.kodepos) : p \in {x \in k : x.kode = sub.kode}}

\* LEFT JOIN wilayah_kodepos AS kodepos ON kodepos.kode = sub.kode: the
\* postal_code values joined to sub, NULL when no record matches
LeftJoinKodepos(sub, k) ==
    LET matches == {p \in k : p.kode = sub.kode}
    IN  IF matches = {} THEN {SqlNull}
        ELSE {SqlStr(p.kodepos) : p \in matches}

\* the transformation query selecting city.nama AS province and prov.nama
\* AS city
TransformationQueryNamesSwapped(w, k) ==
    UNION {{FlatRegion(t[1].kode, t[1].nama, t[2].nama, t[4].nama, t[3].nama, pcode)
              : pcode \in LeftJoinKodepos(t[1], k)}
           : t \in JoinAncestors(w)}

\* the rows of CREATE OR REPLACE TABLE regions AS SELECT ...
TransformationQuery(w, k) ==
    UNION {{FlatRegion(t[1].kode, t[1].nama, t[2].nama, t[3].nama, t[4].nama, pcode)
              : pcode \in LeftJoinKodepos(t[1], k)}
           : t \in JoinAncestors(w)}

\* a DROP TABLE that leaves the table in place
DropTableSkipped(tables, name) == tables

\* DROP TABLE IF EXISTS name
DropTable(tables, name) == tables \ {name}

\* log.Fatal: the process exits where it stands
Fatal ==
    /\ pc' = "fatal"
    /\ UNCHANGED <<regions, catalog, wilayah, wilayah_kodepos>>

\* the ingestor starts on a new database file, or on one that holds the
\* regions of an earlier run
IngestInit ==
    /\ pc = "load_wilayah"
    /\ catalog \in {{}, {"regions"}}
    /\ regions = IF catalog = {} THEN {} ELSE {Row(1)}
    /\ wilayah = {}
    /\ wilayah_kodepos = {}
    /\ dataFiles \in [wilayah : WilayahFiles, kodepos : KodeposFiles]
    /\ NoTraffic
    /\ NoCall
    /\ NoStudy

\* read data/wilayah.sql and execute it: the table wilayah is created and
\* populated, or the ingestor exits
LoadWilayah ==
    /\ pc = "load_wilayah"
    /\ \/ /\ wilayah' = dataFiles.wilayah
          /\ catalog' = catalog \cup {"wilayah"}
          /\ pc' = "load_kodepos"
          /\ UNCHANGED <<regions, wilayah_kodepos>>
       \/ Fatal
    /\ UNCHANGED <<phase, req, dbQueries, svcRet, httpResp, dataFiles, callVars>>

\* a load whose failure is logged and the run goes on to the transformation
LoadKodeposContinuesOnFailure ==
    /\ pc = "load_kodepos"
    /\ \/ /\ wilayah_kodepos' = dataFiles.kodepos
          /\ catalog' = catalog \cup {"wilayah_kodepos"}
          /\ pc' = "transform"
          /\ UNCHANGED <<regions, wilayah>>
       \/ /\ pc' = "transform"
          /\ UNCHANGED <<regions, catalog, wilayah, wilayah_kodepos>>
    /\ UNCHANGED <<phase, req, dbQueries, svcRet, httpResp, dataFiles, callVars>>

\* read data/wilayah_kodepos.sql and execute it
LoadKodepos ==
    /\ pc = "load_kodepos"
    /\ \/ /\ wilayah_kodepos' = dataFiles.kodepos
          /\ catalog' = catalog \cup {"wilayah_kodepos"}
          /\ pc' = "transform"
          /\ UNCHANGED <<regions, wilayah>>
       \/ Fatal
    /\ UNCHANGED <<phase, req, dbQueries, svcRet, httpResp, dataFiles, callVars>>

\* execute the transformation query
Transform ==
    /\ pc = "transform"
    /\ \/ /\ regions' = TransformationQuery(wilayah, wilayah_kodepos)
          /\ catalog' = catalog \cup {"regions"}
          /\ pc' = "drop_wilayah"
          /\ UNCHANGED <<wilayah, wilayah_kodepos>>
       \/ Fatal
    /\ UNCHANGED <<phase, req, dbQueries, svcRet, httpResp, dataFiles, callVars>>

\* DROP TABLE IF EXISTS wilayah
DropWilayah ==
    /\ pc = "drop_wilayah"
    /\ \/ /\ catalog' = DropTable(catalog, "wilayah")
          /\ wilayah' = IF "wilayah" \in catalog' THEN wilayah ELSE {}
          /\ pc' = "drop_kodepos"
          /\ UNCHANGED <<regions, wilayah_kodepos>>
       \/ Fatal
    /\ UNCHANGED <<phase, req, dbQueries, svcRet, httpResp, dataFiles, callVars>>

\* DROP TABLE IF EXISTS wilayah_kodepos, then the success message
DropKodepos ==
    /\ pc = "drop_kodepos"
    /\ \/ /\ catalog' = DropTable(catalog, "wilayah_kodepos")
          /\ wilayah_kodepos' =
                 IF "wilayah_kodepos" \in catalog' THEN wilayah_kodepos ELSE {}
          /\ pc' = "done"
          /\ UNCHANGED <<regions, wilayah>>
       \/ Fatal
    /\ UNCHANGED <<phase, req, dbQueries, svcRet, httpResp, dataFiles, callVars>>

IngestNext ==
    \/ LoadWilayah
    \/ LoadKodepos
    \/ Transform
    \/ DropWilayah
    \/ DropKodepos

IngestSpec == IngestInit /\ [][IngestNext]_vars

----------------------------------------------------------------------------
(* The query normalizer on its own: sanitizeQuery applied to a string, and
   again to what it returned *)

\* longest input string
MaxLen == 4

\* number of successive applications
MaxCalls == 2

\* 'a', 'B', '1', ' ', '-', '_'
SanitizeAlphabet == {97, 66, 49, 32, 45, 95}

\* all strings over alphabet of length at most n
StringsUpTo(alphabet, n) == UNION {[1..k -> alphabet] : k \in 0..n}

\* the inputs of TestSanitizeQuery: "jakarta", "jakarta barat",
\* "jakarta-barat", "jakarta123", ""
Jakarta == <<106, 97, 107, 97, 114, 116, 97>>
Barat == <<98, 97, 114, 97, 116>>
TestSanitizeQueryInputs ==
    { Jakarta,
      Jakarta \o <<32>> \o Barat,
      Jakarta \o <<45>> \o Barat,
      Jakarta \o <<49, 50, 51>>,
      <<>> }

SanitizeInputs == StringsUpTo(SanitizeAlphabet, MaxLen) \cup TestSanitizeQueryInputs

SanitizeInit ==
    /\ regions = {}
    /\ NoTraffic
    /\ Ingested
    /\ input \in {<<s>> : s \in SanitizeInputs}
    /\ output = <<>>
    /\ NoStudy

\* sanitizeQuery(query), query being the input or the last value returned
CallSanitizeQuery ==
    /\ Len(input) = 1
    /\ Len(output) < MaxCalls
    /\ output' = Append(output,
                     sanitizeQuery(IF output = <<>> THEN input[1]
                                   ELSE output[Len(output)]))
    /\ UNCHANGED <<regions, phase, req, dbQueries, svcRet, httpResp,
                   ingestVars, input, inflight, legacyResp>>

SanitizeNext == CallSanitizeQuery

SanitizeSpec == SanitizeInit /\ [][SanitizeNext]_vars

----------------------------------------------------------------------------
(* The similarity scorer on its own: jaro_winkler_similarity(a, b) *)

\* longest string compared
MaxSimLen == 3

\* 'a', 'b', 'c'
SimilarityAlphabet == {97, 98, 99}

SimilarityInputs == StringsUpTo(SimilarityAlphabet, MaxSimLen)

SimilarityInit ==
    /\ regions = {}
    /\ NoTraffic
    /\ Ingested
    /\ input \in {<<a, b>> : a \in SimilarityInputs, b \in SimilarityInputs}
    /\ output = <<>>
    /\ NoStudy

\* jaro_winkler_similarity(a, b) is evaluated
JaroWinklerSimilarity ==
    /\ Len(input) = 2
    /\ output = <<>>
    /\ output' = <<JaroWinkler(input[1], input[2])>>
    /\ UNCHANGED <<regions, phase, req, dbQueries, svcRet, httpResp,
                   ingestVars, input, inflight, legacyResp>>

SimilarityNext == JaroWinklerSimilarity

SimilaritySpec == SimilarityInit /\ [][SimilarityNext]_vars

----------------------------------------------------------------------------
(* Type invariant *)

----------------------------------------------------------------------------
(* The handlers that take the database handle: SearchHandler(db) and its
   five siblings, served next to the Handler methods on the same request *)

\* most rows in a relation served by both kinds of handler
MaxLegacyRows == 3

\* the relations explored: every run of at most MaxLegacyRows consecutive
\* rows of the row universe
LegacyRelations ==
    {{Row(i) : i \in lo..hi} :
        lo \in 1..MaxRows, hi \in 0..MaxRows} \cap
    {rel \in Relations : Cardinality(rel) <= MaxLegacyRows}

\* number of ? placeholders in the SQL text of each handler
Placeholders(op) ==
    IF op \in {"Search", "SearchByPostalCode"} THEN 1
    ELSE IF op = "SearchByCity" THEN 4
    ELSE 2

\* the arguments each handler passes to db.Query after the SQL text
LegacyArgs(op, key) ==
    IF op = "SearchByPostalCode" THEN <<key>>
    ELSE IF op = "SearchByCity" THEN <<key, key, key, key>>
    ELSE <<key, key>>

\* a driver that refuses any argument count other than the placeholders'
BoundArgsExactCount(n, args) ==
    IF Len(args) # n THEN [ok |-> FALSE, args |-> <<>>]
    ELSE [ok |-> TRUE, args |-> args]

\* db.Query binding args to n placeholders.  The call goes to the driver's
\* own QueryContext (go-duckdb), whose bind refuses a call with fewer
\* arguments than placeholders and leaves surplus arguments unused.
BoundArgs(n, args) ==
    IF Len(args) < n THEN [ok |-> FALSE, args |-> <<>>]
    ELSE [ok |-> TRUE, args |-> SubSeq(args, 1, n)]

\* the SQL text of each handler over the rows of the relation
LegacySQL(op, rel, args) ==
    IF op = "Search" THEN {SearchSQL(r, args[1]) : r \in rel}
    ELSE IF op = "SearchByDistrict" THEN {DistrictSQL(r, args[1]) : r \in rel}
    ELSE IF op = "SearchBySubdistrict" THEN {SubdistrictSQL(r, args[1]) : r \in rel}
    ELSE IF op = "SearchByCity" THEN {CitySQL(r, args[1]) : r \in rel}
    ELSE IF op = "SearchByProvince" THEN {ProvinceSQL(r, args[1]) : r \in rel}
    ELSE {PostalCodeSQL(r, args[1]) : r \in rel}

\* the row loop of a handler and what follows it, on a result set of which
\* failAt rows are delivered before the iteration stops with an error
\* (failAt = -1: the iteration completes)
LegacyScan(op, rows, failAt) ==
    LET delivered == IF failAt = -1 THEN rows ELSE SubSeq(rows, 1, failAt)
    IN  IF \E i \in 1..Len(delivered) : ~delivered[i].postal_code.valid
        THEN ErrorResponse(StatusInternalServerError, <<"Failed to scan row">>)
        ELSE IF failAt # -1
        THEN ErrorResponse(StatusInternalServerError, <<"Error iterating rows">>)
        ELSE IF op = "SearchByPostalCode" /\ Len(delivered) = 0
        THEN ErrorResponse(StatusNotFound,
                 <<"No regions found for the provided postal code">>)
        ELSE JSONResponse(
                 IF Len(delivered) = 0 THEN NilSlice
                 ELSE Slice([i \in 1..Len(delivered) |-> Region(delivered[i])]))

\* the responses a handler that takes the database handle can give
LegacyHandler(op, rel, raw, fault) ==
    IF raw = <<>>
    THEN {ErrorResponse(StatusBadRequest,
              <<IF op = "SearchByPostalCode"
                THEN "Postal code parameter is required"
                ELSE "Query parameter 'q' is required">>)}
    ELSE IF op = "SearchByPostalCode" /\ ~ValidPostalCode(raw)
    THEN {ErrorResponse(StatusBadRequest, <<"Postal code must be a 5-digit number">>)}
    ELSE LET key == IF op = "SearchByPostalCode" THEN raw ELSE sanitizeQuery(raw)
             bound == BoundArgs(Placeholders(op), LegacyArgs(op, key))
         IN  IF fault = "query" \/ ~bound.ok
             THEN {ErrorResponse(StatusInternalServerError, <<"Database query failed">>)}
             ELSE UNION {{LegacyScan(op, rows, k) :
                            k \in IF fault = "rows" THEN 0..Len(rows) ELSE {-1}} :
                         rows \in ExecQuery(LegacySQL(op, rel, bound.args))}

\* the service operation a Handler method calls
ServiceOutcomes(op, rel, raw, fault) ==
    IF op = "Search" THEN Search(rel, raw, fault)
    ELSE IF op = "SearchByDistrict" THEN SearchByDistrict(rel, raw, fault)
    ELSE IF op = "SearchBySubdistrict" THEN SearchBySubdistrict(rel, raw, fault)
    ELSE IF op = "SearchByCity" THEN SearchByCity(rel, raw, fault)
    ELSE IF op = "SearchByProvince" THEN SearchByProvince(rel, raw, fault)
    ELSE SearchByPostalCode(rel, raw, fault)

\* the response of the Handler method of an endpoint to what the service
\* returned
HandlerResponse(op, out) ==
    IF op = "SearchByPostalCode" THEN PostalCodeHandlerResponse(out)
    ELSE QueryHandlerResponse(out)

\* the responses the Handler method of an endpoint can give
HandlerResponses(op, rel, raw, fault) ==
    IF raw = <<>>
    THEN {ErrorResponse(StatusBadRequest,
              <<IF op = "SearchByPostalCode"
                THEN "Postal code parameter is required"
                ELSE "Query parameter 'q' is required">>)}
    ELSE {HandlerResponse(op, out) : out \in ServiceOutcomes(op, rel, raw, fault)}

LegacyInit ==
    /\ regions \in LegacyRelations
    /\ NoTraffic
    /\ Ingested
    /\ NoCall
    /\ NoStudy

\* a handler that takes the database handle answered the request
AnsweredByDb(op, raw, fault) ==
    /\ phase' = "responded"
    /\ req' = [via |-> "db", op |-> op, raw |-> raw, fault |-> fault]
    /\ legacyResp' \in LegacyHandler(op, regions, raw, fault)
    /\ UNCHANGED <<regions, dbQueries, svcRet, httpResp, ingestVars,
                   input, output, inflight>>

\* SearchHandler(db): GET /v1/search?q=
DbSearchHandler ==
    /\ phase = "idle"
    /\ \E query \in TextQueries, fault \in Faults :
          AnsweredByDb("Search", query, fault)

\* DistrictSearchHandler(db): GET /v1/search/district?q=
DbDistrictSearchHandler ==
    /\ phase = "idle"
    /\ \E query \in TextQueries, fault \in Faults :
          AnsweredByDb("SearchByDistrict", query, fault)

\* SubdistrictSearchHandler(db): GET /v1/search/subdistrict?q=
DbSubdistrictSearchHandler ==
    /\ phase = "idle"
    /\ \E query \in TextQueries, fault \in Faults :
          AnsweredByDb("SearchBySubdistrict", query, fault)

\* CitySearchHandler(db): GET /v1/search/city?q=
DbCitySearchHandler ==
    /\ phase = "idle"
    /\ \E query \in TextQueries, fault \in Faults :
          AnsweredByDb("SearchByCity", query, fault)

\* ProvinceSearchHandler(db): GET /v1/search/province?q=
DbProvinceSearchHandler ==
    /\ phase = "idle"
    /\ \E query \in TextQueries, fault \in Faults :
          AnsweredByDb("SearchByProvince", query, fault)

\* PostalCodeSearchHandler(db): GET /v1/search/postal/:postalCode
DbPostalCodeSearchHandler ==
    /\ phase = "idle"
    /\ \E postalCode \in PostalInputs, fault \in Faults :
          AnsweredByDb("SearchByPostalCode", postalCode, fault)

\* the response was written: the next request can come
LegacyNextRequest ==
    /\ phase = "responded"
    /\ phase' = "idle"
    /\ req' = NoRequest
    /\ dbQueries' = <<>>
    /\ svcRet' = NotCalled
    /\ httpResp' = NoHttp
    /\ legacyResp' = NoHttp
    /\ UNCHANGED <<regions, ingestVars, input, output, inflight>>

\* each endpoint is served by its Handler method or by the handler that
\* takes the database handle
LegacyNext ==
    \/ SearchHandler
    \/ DistrictSearchHandler
    \/ SubdistrictSearchHandler
    \/ CitySearchHandler
    \/ ProvinceSearchHandler
    \/ PostalCodeSearchHandler
    \/ DbSearchHandler
    \/ DbDistrictSearchHandler
    \/ DbSubdistrictSearchHandler
    \/ DbCitySearchHandler
    \/ DbProvinceSearchHandler
    \/ DbPostalCodeSearchHandler
    \/ LegacyNextRequest

LegacySpec == LegacyInit /\ [][LegacyNext]_vars

----------------------------------------------------------------------------
(* Requests served concurrently: fiber runs each request in its own
   goroutine; the goroutines share the Handler, the Service and the
   database handle, and each keeps its request, its rows and its results in
   its own locals *)

\* number of requests that can be in flight together
MaxInFlight == 2

\* the relations explored: two subdistricts of one district with equal
\* names next to a third elsewhere, and a subdistrict without postal code
ConcurrentRelations == {{Row(1), Row(2), Row(3)}, {Row(15)}}

\* the requests explored: one per operation, with an empty parameter, a
\* malformed postal code and a failing store among them
ConcurrentRequests ==
    { [op |-> "Search", raw |-> <<98, 97, 110, 100, 117, 110, 103>>, fault |-> "none"],
      [op |-> "SearchByDistrict", raw |-> <<98, 97, 110, 100, 117, 110, 103>>, fault |-> "none"],
      [op |-> "SearchBySubdistrict", raw |-> <<>>, fault |-> "none"],
      [op |-> "SearchByCity", raw |-> <<98, 97, 110, 100, 117, 110, 103>>, fault |-> "none"],
      [op |-> "SearchByProvince", raw |-> <<98, 97, 108, 105>>, fault |-> "query"],
      [op |-> "SearchByPostalCode", raw |-> PostalA, fault |-> "none"],
      [op |-> "SearchByPostalCode", raw |-> <<49, 50, 51>>, fault |-> "none"] }

\* the SQL text of each service operation over the rows of the relation
QueryRows(op, rel, key) ==
    IF op = "Search" THEN {SearchSQL(r, key) : r \in rel}
    ELSE IF op = "SearchByDistrict" THEN {DistrictSQL(r, key) : r \in rel}
    ELSE IF op = "SearchBySubdistrict" THEN {SubdistrictSQL(r, key) : r \in rel}
    ELSE IF op = "SearchByCity" THEN {CitySQL(r, key) : r \in rel}
    ELSE IF op = "SearchByProvince" THEN {ProvinceSQL(r, key) : r \in rel}
    ELSE {PostalCodeSQL(r, key) : r \in rel}

\* what the service returned: its error and its results
Ret(err, results) == [err |-> err, results |-> results]

\* a goroutine slot with no request
IdleSlot ==
    [stage |-> "idle", op |-> "none", raw |-> <<>>, fault |-> "none",
     rows |-> <<>>, failAt |-> -1, called |-> FALSE,
     out |-> Ret(NilError, NilSlice), resp |-> NoHttp]

\* the slot answered: the service's return, if it was called, and the
\* response
Answered(s, called, out, resp) ==
    [s EXCEPT !.stage = "done", !.called = called, !.out = out, !.resp = resp]

ConcurrentInit ==
    /\ regions \in ConcurrentRelations
    /\ NoTraffic
    /\ Ingested
    /\ NoCall
    /\ inflight = [i \in 1..MaxInFlight |-> IdleSlot]
    /\ legacyResp = NoHttp

\* a request arrives and gets a goroutine
ReceiveRequest ==
    /\ \E i \in 1..MaxInFlight, r \in ConcurrentRequests :
          /\ inflight[i].stage = "idle"
          /\ inflight' = [inflight EXCEPT ![i] =
                 [IdleSlot EXCEPT !.stage = "received", !.op = r.op,
                                  !.raw = r.raw, !.fault = r.fault]]
    /\ UNCHANGED <<regions, phase, req, dbQueries, svcRet, httpResp,
                   ingestVars, input, output, legacyResp>>

\* the handler and the service run up to db.Query: the request is rejected,
\* the query fails, or the store hands back a result set
QueryStore ==
    /\ \E i \in 1..MaxInFlight :
        LET s == inflight[i]
            key == IF s.op = "SearchByPostalCode" THEN s.raw ELSE sanitizeQuery(s.raw)
        IN  /\ s.stage = "received"
            /\ IF s.raw = <<>>
               THEN inflight' = [inflight EXCEPT ![i] =
                        Answered(s, FALSE, Ret(NilError, NilSlice),
                            ErrorResponse(StatusBadRequest,
                                <<IF s.op = "SearchByPostalCode"
                                  THEN "Postal code parameter is required"
                                  ELSE "Query parameter 'q' is required">>))]
               ELSE IF s.op = "SearchByPostalCode" /\ ~ValidPostalCode(s.raw)
               THEN \E out \in {InvalidInput("postal code must be a 5-digit number")} :
                        inflight' = [inflight EXCEPT ![i] =
                            Answered(s, TRUE, Ret(out.err, out.results),
                                     HandlerResponse(s.op, out))]
               ELSE IF s.fault = "query"
               THEN inflight' = [inflight EXCEPT ![i] =
                        Answered(s, TRUE, QueryFailed, HandlerResponse(s.op, QueryFailed))]
               ELSE \E rows \in ExecQuery(QueryRows(s.op, regions, key)) :
                    \E k \in IF s.fault = "rows" THEN 0..Len(rows) ELSE {-1} :
                        inflight' = [inflight EXCEPT ![i] =
                            [s EXCEPT !.stage = "scanning", !.rows = rows, !.failAt = k]]
    /\ UNCHANGED <<regions, phase, req, dbQueries, svcRet, httpResp,
                   ingestVars, input, output, legacyResp>>

\* the return of an operation whose scan returned ret
AfterScan(op, ret) ==
    IF op = "SearchByPostalCode" /\ ret.err = NilError /\ Len(ret.results.items) = 0
    THEN Ret(NewError(ErrCodeNotFound,
                 <<"no regions found for the provided postal code">>), NilSlice)
    ELSE Ret(ret.err, ret.results)

\* a scan that reads the result set of whichever request is scanning
ScanAndRespondSharedRows ==
    /\ \E i, j \in 1..MaxInFlight :
        /\ inflight[i].stage = "scanning"
        /\ inflight[j].stage = "scanning"
        /\ \E out \in {AfterScan(inflight[i].op,
                           scanRegions(inflight[j].rows, inflight[j].failAt))} :
              inflight' = [inflight EXCEPT ![i] =
                  Answered(inflight[i], TRUE, out, HandlerResponse(inflight[i].op, out))]
    /\ UNCHANGED <<regions, phase, req, dbQueries, svcRet, httpResp,
                   ingestVars, input, output, legacyResp>>

\* scanRegions over the goroutine's own result set, the operation's return
\* and the handler's response
ScanAndRespond ==
    /\ \E i \in 1..MaxInFlight :
        /\ inflight[i].stage = "scanning"
        /\ \E out \in {AfterScan(inflight[i].op,
                           scanRegions(inflight[i].rows, inflight[i].failAt))} :
              inflight' = [inflight EXCEPT ![i] =
                  Answered(inflight[i], TRUE, out, HandlerResponse(inflight[i].op, out))]
    /\ UNCHANGED <<regions, phase, req, dbQueries, svcRet, httpResp,
                   ingestVars, input, output, legacyResp>>

\* the response is on the wire: the goroutine ends
FinishRequest ==
    /\ \E i \in 1..MaxInFlight :
        /\ inflight[i].stage = "done"
        /\ inflight' = [inflight EXCEPT ![i] = IdleSlot]
    /\ UNCHANGED <<regions, phase, req, dbQueries, svcRet, httpResp,
                   ingestVars, input, output, legacyResp>>

ConcurrentNext ==
    \/ ReceiveRequest
    \/ QueryStore
    \/ ScanAndRespond
    \/ FinishRequest

ConcurrentSpec == ConcurrentInit /\ [][ConcurrentNext]_vars

----------------------------------------------------------------------------
(* The two processes on one database file: cmd/ingestor, run any number of
   times, and cmd/api, started and stopped at will.  The store lets one
   process write the file or several read it, never both. *)

\* the data files on disk: the raw regions with or without postal codes
DeployFiles ==
    { [wilayah |-> {RawRegionRecord(i) : i \in 1..4}, kodepos |-> {RawPostalRecord(1)}],
      [wilayah |-> {RawRegionRecord(i) : i \in 1..5}, kodepos |-> {}],
      [wilayah |-> {RawRegionRecord(i) : i \in 1..6},
       kodepos |-> {RawPostalRecord(1), RawPostalRecord(3)}] }

\* the search requests sent to the API: "bandung", "isola" and postal code
\* "40111"
DeployRequests ==
    { [op |-> "Search", raw |-> <<98, 97, 110, 100, 117, 110, 103>>],
      [op |-> "SearchBySubdistrict", raw |-> <<105, 115, 111, 108, 97>>],
      [op |-> "SearchByPostalCode", raw |-> PostalB] }

\* the ingestor is between its first and its last store step
IngestorRunning ==
    pc \in {"load_wilayah", "load_kodepos", "transform", "drop_wilayah", "drop_kodepos"}

\* the API process holds the database file open
ApiUp == phase \in {"idle", "responded"}

\* no process runs, the database file does not exist yet
DeployInit ==
    /\ pc = "off"
    /\ catalog = {}
    /\ regions = {}
    /\ wilayah = {}
    /\ wilayah_kodepos = {}
    /\ dataFiles \in DeployFiles
    /\ phase = "down"
    /\ req = NoRequest
    /\ dbQueries = <<>>
    /\ svcRet = NotCalled
    /\ httpResp = NoHttp
    /\ NoCall
    /\ NoStudy

\* cmd/ingestor is started and opens the database file for writing
StartIngestor ==
    /\ ~IngestorRunning
    /\ ~ApiUp
    /\ pc' = "load_wilayah"
    /\ UNCHANGED <<regions, catalog, wilayah, wilayah_kodepos, dataFiles,
                   phase, req, dbQueries, svcRet, httpResp, callVars>>

\* cmd/ingestor is started while the API holds the file: its first
\* statement fails and it exits
IngestorLockedOut ==
    /\ ~IngestorRunning
    /\ ApiUp
    /\ pc' = "fatal"
    /\ UNCHANGED <<regions, catalog, wilayah, wilayah_kodepos, dataFiles,
                   phase, req, dbQueries, svcRet, httpResp, callVars>>

\* cmd/api is started: it opens the file read-only, which needs the file to
\* exist and no ingestor to hold it, builds the service and the handlers
\* and listens
StartApi ==
    /\ phase = "down"
    /\ ~IngestorRunning
    /\ catalog # {}
    /\ phase' = "idle"
    /\ UNCHANGED <<regions, req, dbQueries, svcRet, httpResp, ingestVars, callVars>>

\* cmd/api is stopped
StopApi ==
    /\ phase = "idle"
    /\ phase' = "down"
    /\ UNCHANGED <<regions, req, dbQueries, svcRet, httpResp, ingestVars, callVars>>

\* a search request is served from the file as it is: a query on a file
\* without the table regions fails
DeploySearch ==
    /\ phase = "idle"
    /\ \E r \in DeployRequests :
       \E fault \in {IF "regions" \in catalog THEN "none" ELSE "query"} :
       \E out \in ServiceOutcomes(r.op, regions, r.raw, fault) :
           Served(r.op, r.raw, fault, out, HandlerResponse(r.op, out))

DeployNext ==
    \/ StartIngestor
    \/ IngestorLockedOut
    \/ LoadWilayah
    \/ LoadKodepos
    \/ Transform
    \/ DropWilayah
    \/ DropKodepos
    \/ StartApi
    \/ StopApi
    \/ DeploySearch
    \/ NextRequest

DeploySpec == DeployInit /\ [][DeployNext]_vars

----------------------------------------------------------------------------
TypeOK ==
    /\ regions \in Relations
    /\ phase \in {"idle", "responded"}
    /\ req.op \in Operations \cup {"none", "Health"}
    /\ Len(dbQueries) <= 1

----------------------------------------------------------------------------
(* Vocabulary of the properties *)

\* the rows the last request returned: from the service, and in the body of
\* the HTTP response
ReturnedRows == svcRet.results.items
BodyRows == httpResp.body.items

\* a request of operation op has been served
ServedOp(op) == phase = "responded" /\ req.op = op

\* the normalized match key of the last request
MatchKey == sanitizeQuery(req.raw)

EightTenths == <<8, 10>>

\* the similarity the three single-field operations score a row by
FieldSimilarity(op, r, key) ==
    IF op = "SearchByDistrict" THEN JaroWinkler(r.district, key)
    ELSE IF op = "SearchBySubdistrict" THEN JaroWinkler(r.subdistrict, key)
    ELSE JaroWinkler(r.province, key)

KotaSimilarity(r, key) ==
    JaroWinkler(r.city, <<75, 111, 116, 97, 32>> \o key)
KabupatenSimilarity(r, key) ==
    JaroWinkler(r.city, <<75, 97, 98, 117, 112, 97, 116, 101, 110, 32>> \o key)

\* the city column of rows
Cities(rows) == [i \in 1..Len(rows) |-> rows[i].city]

RECURSIVE KotaSimilarities(_, _)
\* the similarity of each city of cities to "Kota " + key, as a sequence
KotaSimilarities(cities, key) ==
    IF cities = <<>> THEN <<>>
    ELSE <<KotaSimilarity([city |-> Head(cities)], key)>>
             \o KotaSimilarities(Tail(cities), key)

RECURSIVE KabupatenSimilarities(_, _)
\* the similarity of each city of cities to "Kabupaten " + key, as a sequence
KabupatenSimilarities(cities, key) ==
    IF cities = <<>> THEN <<>>
    ELSE <<KabupatenSimilarity([city |-> Head(cities)], key)>>
             \o KabupatenSimilarities(Tail(cities), key)

\* rows is in non-increasing order of the similarity of op's field to key,
\* and every row scores >= 0.8
AboveThresholdDescending(op, rows, key) ==
    \A sims \in {[i \in 1..Len(rows) |-> FieldSimilarity(op, rows[i], key)]} :
        /\ \A i \in 1..Len(rows) : RatGeq(sims[i], EightTenths)
        /\ \A i \in 1..(Len(rows) - 1) : RatGeq(sims[i], sims[i + 1])

\* rows is in ascending (non-decreasing) full_text order
AscendingFullText(rows) ==
    \A i \in 1..(Len(rows) - 1) : ~StrLess(rows[i + 1].full_text, rows[i].full_text)

----------------------------------------------------------------------------
(* C1: district, subdistrict and province search with a non-empty raw query
   return only rows whose own field has Jaro-Winkler similarity >= 0.8 to
   the normalized query, in non-increasing order of that similarity. *)
C1_FieldSearchThresholdAndOrder ==
    \A op \in {"SearchByDistrict", "SearchBySubdistrict", "SearchByProvince"} :
        (ServedOp(op) /\ req.raw # <<>>) =>
            /\ AboveThresholdDescending(op, ReturnedRows, MatchKey)
            /\ AboveThresholdDescending(op, BodyRows, MatchKey)

\* a district search returned ten rows of which the first scores strictly
\* higher than the last, with the raw query differing from its normalization
C1_Witness ==
    /\ ServedOp("SearchByDistrict")
    /\ req.via = "http"
    /\ req.raw # MatchKey
    /\ Len(BodyRows) = 10
    /\ RatGt(JaroWinkler(BodyRows[1].district, MatchKey),
             JaroWinkler(BodyRows[10].district, MatchKey))

(* C2: city search returns only rows whose city is >= 0.8 similar to
   "Kota " + key or to "Kabupaten " + key, ordered by non-increasing
   similarity to the "Kota " variant and, among rows equal on that, by
   non-increasing similarity to the "Kabupaten " variant; a row whose city
   is exactly "Kota " + key never comes after one whose city is exactly
   "Kabupaten " + key. *)
C2_CitySearchDualPrefix ==
    (ServedOp("SearchByCity") /\ req.raw # <<>>) =>
        \A cities \in {Cities(ReturnedRows), Cities(BodyRows)}, key \in {MatchKey} :
            \A k1 \in {KotaSimilarities(cities, key)},
               k2 \in {KabupatenSimilarities(cities, key)} :
                /\ \A i \in 1..Len(cities) :
                      RatGeq(k1[i], EightTenths) \/ RatGeq(k2[i], EightTenths)
                /\ \A i \in 1..(Len(cities) - 1) :
                      \/ RatGt(k1[i], k1[i + 1])
                      \/ RatEq(k1[i], k1[i + 1]) /\ RatGeq(k2[i], k2[i + 1])
                /\ \A i, j \in 1..Len(cities) :
                      (/\ cities[i] = <<75, 97, 98, 117, 112, 97, 116, 101, 110, 32>> \o key
                       /\ cities[j] = <<75, 111, 116, 97, 32>> \o key)
                      => j < i

\* a city search returned both a "Kota <key>" row and a "Kabupaten <key>" row
C2_Witness ==
    /\ ServedOp("SearchByCity")
    /\ req.raw # <<>>
    /\ \E i, j \in 1..Len(BodyRows) :
          /\ BodyRows[i].city = <<75, 111, 116, 97, 32>> \o MatchKey
          /\ BodyRows[j].city = <<75, 97, 98, 117, 112, 97, 116, 101, 110, 32>> \o MatchKey

(* C3: general search with a non-empty raw query returns only rows whose
   full_text contains the normalized query as a contiguous substring, letter
   case ignored, in ascending full_text order. *)
C3_GeneralSearchSubstringAscending ==
    (ServedOp("Search") /\ req.raw # <<>>) =>
        \A rows \in {ReturnedRows, BodyRows} :
            /\ \A i \in 1..Len(rows) :
                  Contains(ToLower(rows[i].full_text), ToLower(MatchKey))
            /\ AscendingFullText(rows)

\* a general search returned several rows, not all with the same full_text,
\* for a raw query that differs from its normalization
C3_Witness ==
    /\ ServedOp("Search")
    /\ req.raw # MatchKey
    /\ Len(BodyRows) >= 3
    /\ StrLess(BodyRows[1].full_text, BodyRows[Len(BodyRows)].full_text)

\* the raw parameter passes the operation's validation
InputAccepted(op, raw) ==
    IF op = "SearchByPostalCode"
    THEN Len(raw) = 5 /\ \A i \in 1..5 : raw[i] \in 48..57
    ELSE raw # <<>>

\* the predicate of each operation over a row of the relation
Satisfies(op, r, raw) ==
    LET key == sanitizeQuery(raw)
    IN  IF op = "Search" THEN Contains(ToLower(r.full_text), ToLower(key))
        ELSE IF op = "SearchByCity"
        THEN \/ RatGeq(KotaSimilarity(r, key), EightTenths)
             \/ RatGeq(KabupatenSimilarity(r, key), EightTenths)
        ELSE IF op = "SearchByPostalCode"
        THEN r.postal_code.valid /\ r.postal_code.str = raw
        ELSE RatGeq(FieldSimilarity(op, r, key), EightTenths)

\* the ordering of each operation: row x sorts strictly before row y
StrictlyBefore(op, x, y, raw) ==
    LET key == sanitizeQuery(raw)
    IN  IF op \in {"Search", "SearchByPostalCode"}
        THEN StrLess(x.full_text, y.full_text)
        ELSE IF op = "SearchByCity"
        THEN \/ RatGt(KotaSimilarity(x, key), KotaSimilarity(y, key))
             \/ /\ RatEq(KotaSimilarity(x, key), KotaSimilarity(y, key))
                /\ RatGt(KabupatenSimilarity(x, key), KabupatenSimilarity(y, key))
        ELSE RatGt(FieldSimilarity(op, x, key), FieldSimilarity(op, y, key))

\* the rows of the relation that satisfy the last request's predicate
MatchSet == {r \in regions : Satisfies(req.op, r, req.raw)}

ReturnedIds == {ReturnedRows[i].id : i \in 1..Len(ReturnedRows)}

(* C4: each of the six operations returns exactly the first min(10, n) rows
   of its match set under its ordering: never more than 10 rows, every
   match when n <= 10, and no omitted match sorts strictly before a
   returned row.  (Stated for requests that pass validation and meet no
   store fault.) *)
C4_FirstTenOfMatchSet ==
    (/\ phase = "responded"
     /\ req.fault = "none"
     /\ InputAccepted(req.op, req.raw)) =>
        LET matches == MatchSet
            n == Cardinality(matches)
        IN  /\ Len(ReturnedRows) = (IF n < 10 THEN n ELSE 10)
            /\ Cardinality(ReturnedIds) = Len(ReturnedRows)
            /\ \A i \in 1..Len(ReturnedRows) :
                  \E r \in matches : Region(r) = ReturnedRows[i]
            /\ \A r \in matches : r.id \notin ReturnedIds =>
                  \A x \in matches : x.id \in ReturnedIds =>
                      ~StrictlyBefore(req.op, r, x, req.raw)

(* C5: postal code search with a valid 5-digit input returns only rows whose
   postal_code equals the raw input exactly, in ascending full_text order. *)
C5_PostalExactMatchAscending ==
    (ServedOp("SearchByPostalCode") /\ InputAccepted(req.op, req.raw)) =>
        \A rows \in {ReturnedRows, BodyRows} :
            /\ \A i \in 1..Len(rows) : rows[i].postal_code = req.raw
            /\ AscendingFullText(rows)

\* a postal code search returned ten rows, not all with the same full_text,
\* from a relation that also holds rows with another postal code
C5_Witness ==
    /\ ServedOp("SearchByPostalCode")
    /\ Len(BodyRows) = 10
    /\ StrLess(BodyRows[1].full_text, BodyRows[10].full_text)
    /\ \E r \in regions : r.postal_code.valid /\ r.postal_code.str # req.raw

(* C6: postal code search fails with InvalidInput (HTTP 400) without
   querying the store for every input that is not exactly five characters
   each in '0'..'9'; for every input of exactly five ASCII digits the
   validation passes and the store is queried. *)
C6_PostalCodeValidation ==
    ServedOp("SearchByPostalCode") =>
        IF InputAccepted(req.op, req.raw)
        THEN /\ Len(dbQueries) = 1
             /\ dbQueries[1].args = <<req.raw>>
             /\ ~IsError(svcRet.err, ErrCodeInvalidInput)
             /\ httpResp.status # StatusBadRequest
        ELSE /\ dbQueries = <<>>
             /\ req.via = "service" => IsError(svcRet.err, ErrCodeInvalidInput)
             /\ req.via = "http" => httpResp.status = StatusBadRequest
                                    /\ httpResp.body.kind = "object"

\* a parameter of exactly five bytes that is not five ASCII digits was
\* rejected by the service
C6_Witness ==
    /\ ServedOp("SearchByPostalCode")
    /\ svcRet.called
    /\ ByteLen(req.raw) = 5
    /\ \E i \in 1..Len(req.raw) : req.raw[i] > 57
    /\ IsError(svcRet.err, ErrCodeInvalidInput)
    /\ httpResp.status = StatusBadRequest

(* C7: postal code search with a well-formed 5-digit code that no row
   carries fails with NotFound (HTTP 404) when the store answers; no other
   operation ever produces NotFound or 404. *)
C7_NotFoundOnlyFromPostalSearch ==
    /\ (/\ ServedOp("SearchByPostalCode")
        /\ InputAccepted(req.op, req.raw)
        /\ req.fault = "none"
        /\ MatchSet = {}) =>
            /\ IsError(svcRet.err, ErrCodeNotFound)
            /\ req.via = "http" => httpResp.status = StatusNotFound
    /\ (phase = "responded" /\ req.op # "SearchByPostalCode") =>
            /\ ~IsError(svcRet.err, ErrCodeNotFound)
            /\ httpResp.status # StatusNotFound

\* a well-formed postal code carried by no row of a non-empty relation was
\* answered with 404
C7_Witness ==
    /\ ServedOp("SearchByPostalCode")
    /\ regions # {}
    /\ InputAccepted(req.op, req.raw)
    /\ httpResp.status = StatusNotFound
    /\ IsError(svcRet.err, ErrCodeNotFound)

(* C8: for general, district, subdistrict, city and province search, when no
   row satisfies the predicate the operation succeeds with an empty result
   list and the HTTP response is 200 with an empty JSON array as body. *)
C8_NoMatchIsEmptyArray ==
    (/\ phase = "responded"
     /\ req.via = "http"
     /\ req.op \in Operations \ {"SearchByPostalCode"}
     /\ req.raw # <<>>
     /\ req.fault = "none"
     /\ MatchSet = {}) =>
        /\ svcRet.err = NilError
        /\ Len(ReturnedRows) = 0
        /\ httpResp.status = StatusOK
        /\ httpResp.body.kind = "array"
        /\ httpResp.body.items = <<>>

(* C9: each of the six operations, given an empty required parameter, fails
   with InvalidInput (HTTP 400) and issues no query to the store. *)
C9_EmptyParameterRejectedBeforeQuery ==
    (phase = "responded" /\ req.op \in Operations /\ req.raw = <<>>) =>
        /\ dbQueries = <<>>
        /\ req.via = "service" => IsError(svcRet.err, ErrCodeInvalidInput)
        /\ req.via = "http" => /\ httpResp.status = StatusBadRequest
                               /\ httpResp.body.kind = "object"
                               /\ svcRet.called => IsError(svcRet.err, ErrCodeInvalidInput)

\* the service itself was called with an empty query and returned
\* InvalidInput without a query
C9_Witness ==
    /\ ServedOp("Search")
    /\ req.raw = <<>>
    /\ svcRet.called
    /\ IsError(svcRet.err, ErrCodeInvalidInput)
    /\ dbQueries = <<>>
    /\ regions # {}

(* C10: a row whose postal_code is null is still returned: a general,
   district, subdistrict, city or province search whose first ten matches
   are bound to contain such a row completes successfully and includes it. *)
C10_NullPostalRowsReturned ==
    (/\ phase = "responded"
     /\ req.op \in Operations \ {"SearchByPostalCode"}
     /\ req.raw # <<>>
     /\ req.fault = "none") =>
        LET matches == MatchSet
        IN  \A r \in matches :
                (/\ ~r.postal_code.valid
                 /\ Cardinality({x \in matches \ {r} :
                        ~StrictlyBefore(req.op, r, x, req.raw)}) < 10) =>
                    /\ svcRet.err = NilError
                    /\ r.id \in ReturnedIds

----------------------------------------------------------------------------
\* the parts of the error message in the body of the HTTP response
BodyErrorParts == {httpResp.body.error[i] : i \in 1..Len(httpResp.body.error)}

(* C11: at the HTTP boundary every error the service returns maps to a fixed
   status: InvalidInput to 400 and NotFound to 404, both with the service's
   own message, and DatabaseFailure to 500 with the fixed message
   "Database query failed"; the body of a 500 never contains the text of the
   underlying store error. *)
C11_ErrorMappingAtHttpBoundary ==
    (/\ phase = "responded"
     /\ req.via = "http"
     /\ svcRet.called
     /\ svcRet.err # NilError) =>
        /\ httpResp.body.kind = "object"
        /\ IsError(svcRet.err, ErrCodeInvalidInput) =>
               /\ httpResp.status = StatusBadRequest
               /\ httpResp.body.error = svcRet.err.msg
        /\ IsError(svcRet.err, ErrCodeNotFound) =>
               /\ httpResp.status = StatusNotFound
               /\ httpResp.body.error = svcRet.err.msg
        /\ IsError(svcRet.err, ErrCodeDatabaseFailure) =>
               /\ httpResp.status = StatusInternalServerError
               /\ httpResp.body.error = <<"Database query failed">>
               /\ StoreErrorText \notin BodyErrorParts
        /\ svcRet.err.code \in
               {ErrCodeInvalidInput, ErrCodeNotFound, ErrCodeDatabaseFailure}

\* a query the store failed was answered with 500 while the service's error
\* carried the store's error text
C11_Witness ==
    /\ phase = "responded"
    /\ req.via = "http"
    /\ req.op = "SearchByCity"
    /\ req.fault = "query"
    /\ IsError(svcRet.err, ErrCodeDatabaseFailure)
    /\ \E i \in 1..Len(svcRet.err.msg) : svcRet.err.msg[i] = StoreErrorText
    /\ httpResp.status = StatusInternalServerError

----------------------------------------------------------------------------
(* The four steps of the normalizer, each written out on its own *)

\* step 1: every ASCII upper-case letter becomes its lower-case letter
StepLowercase(s) ==
    [i \in 1..Len(s) |-> IF s[i] \in 65..90 THEN s[i] + 32 ELSE s[i]]

RECURSIVE StepDelete(_)
\* step 2: drop every character that is not an ASCII letter, an ASCII digit
\* or a space
StepDelete(s) ==
    IF s = <<>> THEN <<>>
    ELSE (IF Head(s) \in (65..90) \cup (97..122) \cup (48..57) \cup {32}
          THEN <<Head(s)>> ELSE <<>>) \o StepDelete(Tail(s))

RECURSIVE StepCapitalize(_, _)
\* step 3: the first character of every space-delimited token is
\* capitalized, the rest is left as it is (atStart: s begins a token)
StepCapitalize(s, atStart) ==
    IF s = <<>> THEN <<>>
    ELSE <<IF atStart /\ Head(s) \in 97..122 THEN Head(s) - 32 ELSE Head(s)>>
         \o StepCapitalize(Tail(s), Head(s) = 32)

RECURSIVE StepTrimLeft(_)
StepTrimLeft(s) ==
    IF s # <<>> /\ Head(s) \in {9, 10, 11, 12, 13, 32}
    THEN StepTrimLeft(Tail(s)) ELSE s

RECURSIVE StepTrimRight(_)
StepTrimRight(s) ==
    IF s # <<>> /\ s[Len(s)] \in {9, 10, 11, 12, 13, 32}
    THEN StepTrimRight(SubSeq(s, 1, Len(s) - 1)) ELSE s

\* step 4: trim leading and trailing whitespace
StepTrim(s) == StepTrimRight(StepTrimLeft(s))

FourSteps(s) == StepTrim(StepCapitalize(StepDelete(StepLowercase(s)), TRUE))

\* "Jakarta", "Barat"
JakartaTitled == <<74, 97, 107, 97, 114, 116, 97>>
BaratTitled == <<66, 97, 114, 97, 116>>

(* C12: sanitizeQuery(s) is the result of the four steps in order: lowercase;
   delete everything that is not an ASCII letter, digit or space; capitalize
   the first character of every space-delimited token; trim.  In particular
   "jakarta" -> "Jakarta", "jakarta barat" -> "Jakarta Barat",
   "jakarta-barat" -> "Jakartabarat", "jakarta123" -> "Jakarta123",
   "" -> "". *)
C12_SanitizeQueryIsTheFourSteps ==
    Len(output) >= 1 =>
        /\ output[1] = FourSteps(input[1])
        /\ input[1] = Jakarta => output[1] = JakartaTitled
        /\ input[1] = Jakarta \o <<32>> \o Barat =>
               output[1] = JakartaTitled \o <<32>> \o BaratTitled
        /\ input[1] = Jakarta \o <<45>> \o Barat =>
               output[1] = JakartaTitled \o <<98, 97, 114, 97, 116>>
        /\ input[1] = Jakarta \o <<49, 50, 51>> =>
               output[1] = JakartaTitled \o <<49, 50, 51>>
        /\ input[1] = <<>> => output[1] = <<>>

\* the hyphenated example was normalized: the hyphen deleted with no space
\* in its place, the first character capitalized
C12_Witness ==
    /\ Len(output) >= 1
    /\ input[1] = Jakarta \o <<45>> \o Barat
    /\ output[1] = JakartaTitled \o <<98, 97, 114, 97, 116>>

(* C13: the normalizer is idempotent: sanitizeQuery(sanitizeQuery(s)) =
   sanitizeQuery(s) for every string s. *)
C13_SanitizeQueryIdempotent ==
    Len(output) >= 2 => output[2] = output[1]

\* sanitizeQuery was applied twice to a string that the first application
\* changed by deleting, capitalizing and trimming
C13_Witness ==
    /\ Len(output) = 2
    /\ input[1] = <<32, 97, 45, 66>>
    /\ output[1] = <<65, 98>>

----------------------------------------------------------------------------
(* Vocabulary of the ingestion properties *)

\* the raw region records and the postal records the run was given
RawRegions == dataFiles.wilayah
RawPostal == dataFiles.kodepos

\* the transformation of this run has produced the regions relation
Built == pc \in {"drop_wilayah", "drop_kodepos", "done"}

\* the first n characters of a code
CodePrefix(code, n) == [i \in 1..n |-> code[i]]

HasRaw(code) == \E w \in RawRegions : w.kode = code
RawNamed(code, name) == \E w \in RawRegions : w.kode = code /\ w.nama = name

\* a raw record of a subdistrict, and one whose three ancestors exist
IsSubdistrict(w) == Len(w.kode) = 13
Resolved(w) ==
    /\ IsSubdistrict(w)
    /\ HasRaw(CodePrefix(w.kode, 8))
    /\ HasRaw(CodePrefix(w.kode, 5))
    /\ HasRaw(CodePrefix(w.kode, 2))

(* C14: every row of the Denormalizer's output has an id of length 13 that
   is the code of a raw record; its province, city and district are the
   names of raw records whose codes are the first 2, 5 and 8 characters of
   the id, and its subdistrict is the name of a raw record with code id. *)
C14_OutputRowsNameTheirAncestors ==
    Built =>
        \A r \in regions :
            /\ Len(r.id) = 13
            /\ RawNamed(r.id, r.subdistrict)
            /\ RawNamed(CodePrefix(r.id, 8), r.district)
            /\ RawNamed(CodePrefix(r.id, 5), r.city)
            /\ RawNamed(CodePrefix(r.id, 2), r.province)

\* a completed run produced rows of two different districts from raw data
\* that also held records of the three upper levels
C14_Witness ==
    /\ pc = "done"
    /\ \E r1, r2 \in regions :
          /\ r1.district # r2.district
          /\ r1.city = r2.city
          /\ r1.province # r1.city

(* C15: every FlatRegion of the relation has full_text = lowercase(province
   + " " + city + " " + district + " " + subdistrict). *)
C15_FullTextIsLowercasedJoin ==
    \A r \in regions :
        r.full_text = StepLowercase(r.province \o <<32>> \o r.city \o <<32>>
                                    \o r.district \o <<32>> \o r.subdistrict)

\* the run produced a row whose four names are pairwise different and hold
\* upper-case letters
C15_Witness ==
    /\ Built
    /\ \E r \in regions :
          /\ Cardinality({r.province, r.city, r.district, r.subdistrict}) = 4
          /\ r.full_text # r.province \o <<32>> \o r.city \o <<32>>
                              \o r.district \o <<32>> \o r.subdistrict

(* C16: postal data absence never excludes a region: every raw subdistrict
   record whose three ancestors exist appears in the output whatever the
   postal table holds, with postal_code null when no postal record has its
   code and equal to a matching record's postal code otherwise. *)
C16_PostalAbsenceNeverExcludes ==
    Built =>
        \A w \in RawRegions : Resolved(w) =>
            /\ \E r \in regions : r.id = w.kode
            /\ \A r \in regions : r.id = w.kode =>
                   IF \E p \in RawPostal : p.kode = w.kode
                   THEN /\ r.postal_code.valid
                        /\ \E p \in RawPostal : /\ p.kode = w.kode
                                                 /\ p.kodepos = r.postal_code.str
                   ELSE ~r.postal_code.valid

\* a completed run kept a subdistrict without a postal record, with a null
\* postal_code, next to one that has a postal record
C16_Witness ==
    /\ pc = "done"
    /\ RawPostal # {}
    /\ \E r1, r2 \in regions : ~r1.postal_code.valid /\ r2.postal_code.valid

(* C17: if a raw subdistrict record has an ancestor code with no raw record,
   ingestion aborts: no run completes with a regions relation that omits
   that subdistrict. *)
C17_MissingAncestorAborts ==
    (\E w \in RawRegions : IsSubdistrict(w) /\ ~Resolved(w)) => pc # "done"

(* C18: for raw records with pairwise distinct codes and any postal table,
   no id occurs in more than one output row, and the number of output rows
   is the number of raw subdistrict records whose three ancestors exist. *)
C18_OneRowPerResolvedSubdistrict ==
    (/\ Built
     /\ \A w1, w2 \in RawRegions : w1.kode = w2.kode => w1 = w2) =>
        /\ \A r1, r2 \in regions : r1.id = r2.id => r1 = r2
        /\ Cardinality(regions) = Cardinality({w \in RawRegions : Resolved(w)})

(* C19: after an ingestion run that completes successfully the store holds
   only the regions relation: the staging tables wilayah and wilayah_kodepos
   no longer exist. *)
C19_OnlyRegionsRetained ==
    pc = "done" =>
        /\ catalog = {"regions"}
        /\ wilayah = {}
        /\ wilayah_kodepos = {}

\* a run whose two staging tables held rows completed
C19_Witness ==
    /\ pc = "done"
    /\ RawRegions # {}
    /\ RawPostal # {}
    /\ regions # {}

----------------------------------------------------------------------------
(* C20: for every string s, the empty string and the strings of length 1
   included, the Jaro-Winkler similarity of s with itself is 1.0. *)
C20_SimilarityOfIdenticalStringsIsOne ==
    (Len(output) = 1 /\ input[1] = input[2]) => RatEq(output[1], <<1, 1>>)

(* C21: the Jaro-Winkler similarity is symmetric: for all strings a and b,
   of equal or different lengths, with or without repeated characters, the
   similarity of a with b equals the similarity of b with a. *)
C21_SimilarityIsSymmetric ==
    Len(output) = 1 => RatEq(output[1], JaroWinkler(input[2], input[1]))

\* two strings of different lengths, one with a repeated character, that
\* are similar but not identical
C21_Witness ==
    /\ Len(output) = 1
    /\ Len(input[1]) = 3
    /\ Len(input[2]) = 2
    /\ input[1][1] = input[1][2]
    /\ RatGt(output[1], <<0, 1>>)
    /\ RatGt(<<1, 1>>, output[1])

(* C22: for all strings a and b the Jaro-Winkler similarity lies in [0, 1],
   it is 1 exactly when a and b are identical, the similarity of the empty
   string with itself is 1 and with any non-empty string is 0. *)
C22_SimilarityRangeAndIdentity ==
    Len(output) = 1 =>
        /\ RatGeq(output[1], <<0, 1>>)
        /\ RatGeq(<<1, 1>>, output[1])
        /\ RatEq(output[1], <<1, 1>>) <=> input[1] = input[2]
        /\ (input[1] = <<>> /\ input[2] # <<>>) => RatEq(output[1], <<0, 1>>)

----------------------------------------------------------------------------
\* the store steps of the ingestor in program order
StepOrder ==
    <<"load_wilayah", "load_kodepos", "transform", "drop_wilayah",
      "drop_kodepos", "done">>

\* step q is the one that follows step p
FollowsInOrder(p, q) ==
    \E k \in 1..(Len(StepOrder) - 1) : StepOrder[k] = p /\ StepOrder[k + 1] = q

(* C30: the ingestor performs its store steps in the order load raw regions,
   load raw postal codes, create-or-replace regions, drop wilayah, drop
   wilayah_kodepos; a step either moves on to the next one or ends the run,
   and a run that ended executes nothing more; the regions relation changes
   only in the transformation step and only when both raw tables were loaded,
   so a run that fails earlier leaves an existing regions relation as it
   was. *)
C30_StepsInOrderStopAtFirstFailure ==
    [][/\ pc' # pc => (FollowsInOrder(pc, pc') \/ pc' = "fatal")
       /\ pc' = "fatal" =>
              UNCHANGED <<regions, catalog, wilayah, wilayah_kodepos>>
       /\ pc \in {"fatal", "done"} => UNCHANGED <<pc, regions, ingestVars>>
       /\ (regions' # regions \/ "regions" \in catalog' \ catalog) =>
              /\ pc = "transform"
              /\ {"wilayah", "wilayah_kodepos"} \subseteq catalog]_vars

\* the load of the postal codes failed on a store that held the regions of
\* an earlier run: the run is over and those regions are still there
C30_Witness ==
    /\ pc = "fatal"
    /\ catalog = {"regions", "wilayah"}
    /\ wilayah # {}
    /\ regions = {Row(1)}

----------------------------------------------------------------------------
\* the response of the handlers' last branch: status 500 with err.Error()
FallThroughResponse(err) == ErrorResponse(StatusInternalServerError, err.msg)

(* C27: every error a service operation returns, to a handler or to a
   library client, carries one of the codes INVALID_INPUT, NOT_FOUND and
   DATABASE_FAILURE; an error that follows a query sent to the store is
   DATABASE_FAILURE, or NOT_FOUND from the postal-code search; so no response
   is the one of the handlers' last branch, which would carry the error's own
   text with status 500. *)
C27_ServiceErrorsAreCoded ==
    (phase = "responded" /\ svcRet.called /\ svcRet.err # NilError) =>
        /\ svcRet.err.code \in
               {ErrCodeInvalidInput, ErrCodeNotFound, ErrCodeDatabaseFailure}
        /\ req.fault = "query" =>
               (dbQueries # <<>> => IsError(svcRet.err, ErrCodeDatabaseFailure))
        /\ dbQueries # <<>> =>
               \/ IsError(svcRet.err, ErrCodeDatabaseFailure)
               \/ /\ IsError(svcRet.err, ErrCodeNotFound)
                  /\ req.op = "SearchByPostalCode"
        /\ dbQueries = <<>> => IsError(svcRet.err, ErrCodeInvalidInput)
        /\ req.via = "http" => httpResp # FallThroughResponse(svcRet.err)

\* a handler answered a request whose row iteration the store broke off
C27_Witness ==
    /\ phase = "responded"
    /\ req.via = "http"
    /\ req.fault = "rows"
    /\ svcRet.called
    /\ IsError(svcRet.err, ErrCodeDatabaseFailure)
    /\ svcRet.err.msg[1] = "error iterating rows: "
    /\ httpResp.status = StatusInternalServerError

----------------------------------------------------------------------------
(* C29: a non-empty raw query whose normalized key is the empty string is
   not rejected: general search sends the query to the store with the empty
   key, every row of the relation matches, and the operation returns, with
   no error, the first min(10, |relation|) rows in ascending full_text
   order.  (Stated for requests that meet no store fault.) *)
C29_EmptyKeyMatchesEveryRow ==
    (/\ ServedOp("Search")
     /\ req.raw # <<>>
     /\ MatchKey = <<>>
     /\ req.fault = "none") =>
        /\ svcRet.called
        /\ dbQueries = <<[sql |-> "Search", args |-> <<<<>>>>]>>
        /\ MatchSet = regions
        /\ svcRet.err = NilError
        /\ Len(ReturnedRows) = MinOf(Limit, Cardinality(regions))
        /\ AscendingFullText(ReturnedRows)
        /\ \A i \in 1..Len(ReturnedRows) :
               \E r \in regions : ReturnedRows[i].id = r.id

----------------------------------------------------------------------------
(* C23: no serving-time operation changes the regions relation: across every
   search request, answered with rows or with an error, every direct call of
   the service and every health check, the relation stays the one the
   ingestion left. *)
C23_ServingNeverChangesRegions ==
    [][regions' = regions]_vars

\* a search the store failed was answered over a relation that holds rows
C23_Witness ==
    /\ ServedOp("SearchByCity")
    /\ req.via = "http"
    /\ req.fault = "query"
    /\ httpResp.status = StatusInternalServerError
    /\ Cardinality(regions) >= 2

----------------------------------------------------------------------------
\* two responses carry the same status and, when it is 200, the same rows
SameAnswer(x, y) ==
    /\ x.status = y.status
    /\ x.status = StatusOK =>
           /\ x.body.kind = y.body.kind
           /\ x.body.items = y.body.items

(* C26: the handlers that take the database handle behave as the Handler
   methods of the same endpoints: for every request and every relation, the
   response of the one has the status, and on success the rows, of a
   response the other can give to the same request on the same relation. *)
C26_LegacyHandlersEquivalent ==
    /\ (phase = "responded" /\ req.via = "db") =>
           \E h \in HandlerResponses(req.op, regions, req.raw, req.fault) :
               SameAnswer(legacyResp, h)
    /\ (phase = "responded" /\ req.via = "http") =>
           \E l \in LegacyHandler(req.op, regions, req.raw, req.fault) :
               SameAnswer(l, httpResp)

\* the general search by database handle, which passes two arguments for
\* one placeholder, answered with several rows
C26_Witness ==
    /\ ServedOp("Search")
    /\ req.via = "db"
    /\ legacyResp.status = StatusOK
    /\ Len(legacyResp.body.items) >= 2

----------------------------------------------------------------------------
\* the answer in slot s is one the same request gets when it runs alone
AnswerOfRequestAlone(s) ==
    IF ~s.called
    THEN s.resp \in HandlerResponses(s.op, regions, s.raw, s.fault)
    ELSE \E o \in ServiceOutcomes(s.op, regions, s.raw, s.fault) :
            /\ o.err = s.out.err
            /\ o.results = s.out.results
            /\ s.resp = HandlerResponse(s.op, o)

(* C24: requests may run concurrently without coordination: in every
   interleaving of the steps of the requests in flight, the outcome of each
   request, rows or error, is an outcome of the same request executed alone
   against the same relation. *)
C24_ConcurrentRequestsAsAlone ==
    \A i \in 1..Len(inflight) :
        inflight[i].stage = "done" => AnswerOfRequestAlone(inflight[i])

\* a request was answered with rows while a request of another operation,
\* received before that answer, was scanning its own rows
C24_Witness ==
    /\ Len(inflight) >= 2
    /\ inflight[1].stage = "done"
    /\ Len(inflight[1].out.results.items) >= 2
    /\ inflight[2].stage = "scanning"
    /\ inflight[2].op # inflight[1].op
    /\ Len(inflight[2].rows) >= 1

(* C28: search is deterministic: two executions of the same operation with
   the same raw input against the same relation, the store healthy, return
   the same rows in the same order. *)
C28_SearchIsDeterministic ==
    \A i, j \in 1..Len(inflight) :
        (/\ inflight[i].stage = "done"
         /\ inflight[j].stage = "done"
         /\ inflight[i].op = inflight[j].op
         /\ inflight[i].raw = inflight[j].raw
         /\ inflight[i].fault = "none"
         /\ inflight[j].fault = "none") =>
            /\ inflight[i].out = inflight[j].out
            /\ inflight[i].resp = inflight[j].resp

----------------------------------------------------------------------------
(* C25: ingestion and serving never overlap: in every execution of the
   ingestor process and the API process on the same store, a search request
   is answered only once the regions relation has been built, and no step of
   the ingestor runs while the API is accepting traffic. *)
C25_IngestionBeforeServing ==
    /\ (phase = "responded" /\ req.op \in Operations) => "regions" \in catalog
    /\ ApiUp => ~IngestorRunning

====
